---- MODULE Spec2Model ----
(***************************************************************************)
(* Staking engine of the subtensor pallet (staking/stake_utils.rs): the    *)
(* constant-product pool of every subnet, the moving-price EMA and the     *)
(* operations that stake into a subnet.                                    *)
(*                                                                         *)
(* The program computes on u64 and on 128-bit binary fixed-point numbers.  *)
(* TLC's integers are 32 bits wide, so every program number is held as a   *)
(* natural of arbitrary size: the sequence of its base-10^4 limbs, least   *)
(* significant first, with no trailing zero limb (zero is << >>).  Two     *)
(* numbers are equal exactly when their sequences are equal.               *)
(***************************************************************************)
EXTENDS Integers, Sequences, FiniteSets, TLC

----------------------------------------------------------------------------
(* Naturals of arbitrary size *)

Base == 10 ^ 4

Z == << >>

RECURSIVE Norm(_)
\* A limb sequence without its trailing (most significant) zero limbs.
Norm(s) == IF s = << >> THEN s
           ELSE IF s[Len(s)] # 0 THEN s
           ELSE Norm(SubSeq(s, 1, Len(s) - 1))

\* The number of a TLA+ natural (below 2^31).
N(n) == Norm(<< n % Base, (n \div Base) % Base, n \div (Base * Base) >>)

\* The number written by a sequence of base-10^4 groups, most significant first:
\* Dec(<<1, 0, 0>>) is 1_0000_0000.
Dec(groups) == Norm([i \in 1..Len(groups) |-> groups[Len(groups) + 1 - i]])

Limb(a, i) == IF i <= Len(a) THEN a[i] ELSE 0

\* a * Base^k.
ShiftUp(a, k) == IF a = << >> THEN a ELSE [i \in 1..k |-> 0] \o a

RECURSIVE LtAt(_, _, _)
\* a < b for numbers of the same length, comparing from limb i downwards.
LtAt(a, b, i) == IF i = 0 THEN FALSE
                 ELSE IF a[i] # b[i] THEN a[i] < b[i]
                 ELSE LtAt(a, b, i - 1)

NLt(a, b) == IF Len(a) # Len(b) THEN Len(a) < Len(b) ELSE LtAt(a, b, Len(a))
NLe(a, b) == ~NLt(b, a)
NMin(a, b) == IF NLt(b, a) THEN b ELSE a
NMax(a, b) == IF NLt(a, b) THEN b ELSE a

RECURSIVE AddFrom(_, _, _, _)
\* The limbs i.. of a + b, with the carry c into limb i.
AddFrom(a, b, i, c) ==
    IF i > Len(a) /\ i > Len(b) THEN (IF c = 0 THEN << >> ELSE << c >>)
    ELSE LET s == Limb(a, i) + Limb(b, i) + c
         IN  << s % Base >> \o AddFrom(a, b, i + 1, s \div Base)

\* a + b.
NAdd(a, b) == IF b = << >> THEN a ELSE IF a = << >> THEN b ELSE AddFrom(a, b, 1, 0)

RECURSIVE SubFrom(_, _, _, _)
\* The limbs i.. of a - b for a >= b, with the borrow c from limb i.
SubFrom(a, b, i, c) ==
    IF i > Len(a) THEN << >>
    ELSE LET d == a[i] - Limb(b, i) - c
         IN  << (d + Base) % Base >> \o SubFrom(a, b, i + 1, IF d < 0 THEN 1 ELSE 0)

\* a - b, and 0 when b > a (Rust's saturating_sub on unsigned numbers).
NSub(a, b) == IF b = << >> THEN a
              ELSE IF NLt(a, b) THEN Z
              ELSE Norm(SubFrom(a, b, 1, 0))

RECURSIVE MulSmallFrom(_, _, _, _)
\* The limbs i.. of a * m, with the carry c into limb i.
MulSmallFrom(a, m, i, c) ==
    IF i > Len(a) THEN (IF c = 0 THEN << >> ELSE << c >>)
    ELSE LET s == a[i] * m + c
         IN  << s % Base >> \o MulSmallFrom(a, m, i + 1, s \div Base)

\* a * m for a limb 0 <= m < Base.
MulSmall(a, m) == IF m = 0 THEN Z ELSE IF m = 1 THEN a ELSE MulSmallFrom(a, m, 1, 0)

RECURSIVE MulRange(_, _, _, _)
\* a * (the limbs lo..hi of b, in their places).
MulRange(a, b, lo, hi) ==
    IF lo = hi THEN ShiftUp(MulSmall(a, b[lo]), lo - 1)
    ELSE NAdd(MulRange(a, b, lo, (lo + hi) \div 2), MulRange(a, b, (lo + hi) \div 2 + 1, hi))

\* a * b.
NMul(a, b) == IF a = Z \/ b = Z THEN Z ELSE MulRange(a, b, 1, Len(b))

\* Long division by v, whose top limb is at least Base \div 2.  A state is
\* << quotient so far, remainder so far >>; r is the remainder with the next
\* limb of the dividend joined to it.  The quotient limb is estimated from the
\* top limbs and is at most 2 too large (Knuth, 4.3.1, theorem B).
QHat(v, r) ==
    LET est == (Limb(r, Len(v) + 1) * Base + Limb(r, Len(v))) \div v[Len(v)]
    IN  IF est > Base - 1 THEN Base - 1 ELSE est
DivDigit(v, r, qhat) ==
    IF NLe(MulSmall(v, qhat), r) THEN qhat
    ELSE IF NLe(MulSmall(v, qhat - 1), r) THEN qhat - 1
    ELSE qhat - 2
DivPut(v, q, r, d) ==
    << IF q = << >> /\ d = 0 THEN << >> ELSE << d >> \o q, NSub(r, MulSmall(v, d)) >>
DivJoin(v, q, r) == DivPut(v, q, r, DivDigit(v, r, QHat(v, r)))
DivLimb(v, st, u) == DivJoin(v, st[1], Norm(<< u >> \o st[2]))

RECURSIVE DivRange(_, _, _, _, _)
\* Long division over the limbs hi down to lo of u, from the state st.  The
\* state is compared with the empty state so that it is evaluated before the
\* next limbs are divided, not inside their division.
DivRange(u, v, hi, lo, st) ==
    IF st = << >> THEN st
    ELSE IF hi = lo THEN DivLimb(v, st, u[hi])
    ELSE DivRange(u, v, (hi + lo + 1) \div 2 - 1, lo,
                  DivRange(u, v, hi, (hi + lo + 1) \div 2, st))

\* floor(u / v) for a divisor whose top limb is at least Base \div 2.
DivScaled(u, v) == DivRange(u, v, Len(u), 1, << Z, Z >>)[1]

\* floor(a / b), for b # 0.  Both are scaled first so that the divisor's top
\* limb is at least Base \div 2, which leaves the quotient unchanged.
NDiv(a, b) ==
    IF NLt(a, b) THEN Z
    ELSE DivScaled(MulSmall(a, Base \div (b[Len(b)] + 1)),
                   MulSmall(b, Base \div (b[Len(b)] + 1)))

\* a mod b, for b # 0.
NMod(a, b) == NSub(a, NMul(NDiv(a, b), b))

RECURSIVE Pow2(_)
\* 2^k.
Pow2(k) == IF k <= 30 THEN N(2 ^ k) ELSE NMul(N(2 ^ 30), Pow2(k - 30))

\* The value of a number below 2^31 as a TLA+ natural.
ToNat(n) == Limb(n, 1) + Base * Limb(n, 2) + Base * Base * Limb(n, 3)

\* floor(sqrt(t)) of a TLA+ natural t < Base^2.
SmallSqrt(t) ==
    LET c == CHOOSE c \in 0..99 : (100 * c) * (100 * c) <= t /\ t < (100 * c + 100) * (100 * c + 100)
    IN  CHOOSE r \in (100 * c)..(100 * c + 99) : r * r <= t /\ t < (r + 1) * (r + 1)

RECURSIVE SqrtIter(_, _)
\* Newton's iteration from a start r not below the root of n: floor(sqrt(n)).
SqrtNext(n, r, y) == IF NLt(y, r) THEN SqrtIter(n, y) ELSE r
SqrtIter(n, r) == SqrtNext(n, r, NDiv(NAdd(r, NDiv(n, r)), N(2)))

\* floor(sqrt(n)); the iteration starts from the root of the top limbs, rounded up.
NSqrt(n) ==
    IF n = Z THEN Z
    ELSE SqrtIter(n, ShiftUp(N(SmallSqrt(Limb(n, 2 * ((Len(n) - 1) \div 2) + 2) * Base
                                         + n[2 * ((Len(n) - 1) \div 2) + 1]) + 1),
                             (Len(n) - 1) \div 2))

----------------------------------------------------------------------------
(* Machine integers and unsigned fixed-point numbers.  A fixed-point number *)
(* with F fractional bits is held as its raw bits, the natural value * 2^F. *)

Two18  == Dec(<< 26, 2144 >>)
Two32  == Dec(<< 42, 9496, 7296 >>)
Two63  == Dec(<< 922, 3372, 368, 5477, 5808 >>)
Two64  == Dec(<< 1844, 6744, 737, 955, 1616 >>)
Two127 == Dec(<< 170, 1411, 8346, 469, 2317, 3168, 7303, 7158, 8410, 5728 >>)
Two128 == Dec(<< 340, 2823, 6692, 938, 4634, 6337, 4607, 4317, 6821, 1456 >>)

U64_MAX  == Dec(<< 1844, 6744, 737, 955, 1615 >>)
I128_MAX == Dec(<< 170, 1411, 8346, 469, 2317, 3168, 7303, 7158, 8410, 5727 >>)
U128_MAX == Dec(<< 340, 2823, 6692, 938, 4634, 6337, 4607, 4317, 6821, 1455 >>)

\* u64::saturating_add and u64::saturating_sub.
u64_saturating_add(a, b) == NMin(NAdd(a, b), U64_MAX)
u64_saturating_sub(a, b) == NSub(a, b)
\* u128::saturating_add.
u128_saturating_add(a, b) == NMin(NAdd(a, b), U128_MAX)

\* Option<u64>.
None == [some |-> FALSE, val |-> Z]
Some(v) == [some |-> TRUE, val |-> v]

\* The raw bits 2^F of one, for the types in use: U110F18, U96F32 and I96F32,
\* U64F64 and I64F64.
Unit(F) == IF F = 18 THEN Two18 ELSE IF F = 32 THEN Two32 ELSE Two64

\* A quotient that fits 128 bits, and 0 for one that does not.
checked_u128(q) == IF NLt(U128_MAX, q) THEN Z ELSE q

\* U..F..::saturating_from_num of an unsigned integer.
ufix_from_int(n, F) == NMin(NMul(n, Unit(F)), U128_MAX)
\* saturating_to_num::<u64>: the integer part, saturated.
ufix_to_u64(a, F) == NMin(NDiv(a, Unit(F)), U64_MAX)
ufix_saturating_add(a, b) == NMin(NAdd(a, b), U128_MAX)
ufix_saturating_sub(a, b) == NSub(a, b)
\* saturating_mul: the exact product with the low F bits dropped, saturated.
ufix_saturating_mul(a, b, F) == NMin(NDiv(NMul(a, b), Unit(F)), U128_MAX)
\* checked_div(..).unwrap_or(0) and safe_div: the quotient with the bits below
\* 2^-F dropped; 0 on a zero divisor and when the quotient does not fit.
ufix_safe_div(a, b, F) == IF b = Z THEN Z ELSE checked_u128(NDiv(NMul(a, Unit(F)), b))

----------------------------------------------------------------------------
(* Signed 128-bit fixed-point numbers (I96F32, I64F64): a sign and the       *)
(* magnitude of the raw bits.  Zero is never negative.                       *)

SInt(neg, mag) == [neg |-> neg /\ mag # Z, mag |-> mag]
SZero == SInt(FALSE, Z)
SNeg(a) == SInt(~a.neg, a.mag)
SLt(a, b) == IF a.neg # b.neg THEN a.neg
             ELSE IF a.neg THEN NLt(b.mag, a.mag) ELSE NLt(a.mag, b.mag)
\* The exact sum of two signed numbers.
SAdd(a, b) == IF a.neg = b.neg THEN SInt(a.neg, NAdd(a.mag, b.mag))
              ELSE IF NLt(a.mag, b.mag) THEN SInt(b.neg, NSub(b.mag, a.mag))
              ELSE SInt(a.neg, NSub(a.mag, b.mag))
\* The exact product of two signed numbers.
SMul(a, b) == SInt(a.neg # b.neg, NMul(a.mag, b.mag))
\* Saturation to the range of i128, -2^127 .. 2^127 - 1.
SSat(a) == IF a.neg THEN SInt(TRUE, NMin(a.mag, Two127)) ELSE SInt(FALSE, NMin(a.mag, I128_MAX))
\* A quotient that fits i128, and 0 for one that does not.
checked_i128(q) == IF SSat(q) # q THEN SZero ELSE q

\* saturating_from_num of an integer given by sign and magnitude.
ifix_from_int(neg, n, F) == SSat(SInt(neg, NMul(n, Unit(F))))
\* saturating_from_num of an unsigned fixed-point number with the same F.
ifix_from_ufix(u) == SInt(FALSE, NMin(u, I128_MAX))
\* U..::saturating_from_num of a signed fixed-point number with the same F.
ufix_from_ifix(a) == IF a.neg THEN Z ELSE a.mag
ifix_saturating_add(a, b) == SSat(SAdd(a, b))
\* The exact product p of two raw magnitudes shifted right by F bits: q is
\* floor(p / 2^F), and a negative product that is not a multiple of 2^F is
\* rounded away from zero (the shift rounds towards minus infinity).
ifix_shifted(neg, p, q, F) ==
    SSat(SInt(neg, IF neg /\ NMul(q, Unit(F)) # p THEN NAdd(q, N(1)) ELSE q))
ifix_shift(neg, p, F) == ifix_shifted(neg, p, NDiv(p, Unit(F)), F)
\* saturating_mul.
ifix_saturating_mul(a, b, F) == ifix_shift(a.neg # b.neg, NMul(a.mag, b.mag), F)
\* safe_div: the quotient truncated towards zero; 0 on a zero divisor and when
\* the quotient does not fit.
ifix_safe_div(a, b, F) ==
    IF b.mag = Z THEN SZero
    ELSE checked_i128(SInt(a.neg # b.neg, NDiv(NMul(a.mag, Unit(F)), b.mag)))
ifix_saturating_abs(a) == SSat(SInt(FALSE, a.mag))
\* ceil: the least integer not below a, whose integer part is q.
ifix_ceil_of(a, q, F) ==
    IF a.neg THEN SInt(TRUE, NMul(q, Unit(F)))
    ELSE SSat(SInt(FALSE, NMul(IF NMul(q, Unit(F)) = a.mag THEN q ELSE NAdd(q, N(1)), Unit(F))))
ifix_ceil(a, F) == ifix_ceil_of(a, NDiv(a.mag, Unit(F)), F)
ifix_min(a, b) == IF SLt(b, a) THEN b ELSE a

----------------------------------------------------------------------------
(* The constant-product pool *)

\* A faulty pool_output, which pays out below the floor as well.
pool_output_without_floor(reserves, new_reserves, min_liquidity) ==
    Some(ufix_to_u64(ufix_saturating_sub(reserves, new_reserves), 18))

\* The amount a swap pays out (lines 715-723 and 755-763): the fall of the
\* output-side reserve, rounded down, unless the new reserve is below the floor.
pool_output(reserves, new_reserves, min_liquidity) ==
    IF NLe(min_liquidity, new_reserves)
    THEN Some(ufix_to_u64(ufix_saturating_sub(reserves, new_reserves), 18))
    ELSE None

\* A faulty dynamic_tao_for_alpha, which divides k by the old tao reserve.
dynamic_tao_for_alpha_without_input(tao_reserves, alpha_reserves, tao, min_liquidity) ==
    pool_output(alpha_reserves,
                ufix_safe_div(ufix_saturating_mul(alpha_reserves, tao_reserves, 18),
                              tao_reserves, 18),
                min_liquidity)

\* The Dynamic branch of sim_swap_tao_for_alpha on U110F18 values.
dynamic_tao_for_alpha(tao_reserves, alpha_reserves, tao, min_liquidity) ==
    pool_output(alpha_reserves,
                ufix_safe_div(ufix_saturating_mul(alpha_reserves, tao_reserves, 18),
                              ufix_saturating_add(tao_reserves, tao), 18),
                min_liquidity)

\* The Dynamic branch of sim_swap_alpha_for_tao on U110F18 values.
dynamic_alpha_for_tao(tao_reserves, alpha_reserves, alpha, min_liquidity) ==
    pool_output(tao_reserves,
                ufix_safe_div(ufix_saturating_mul(alpha_reserves, tao_reserves, 18),
                              ufix_saturating_add(alpha_reserves, alpha), 18),
                min_liquidity)

\* sim_swap_tao_for_alpha on explicit storage values: the mechanism of the
\* subnet, SubnetTAO, SubnetAlphaIn, the tao swapped in and the liquidity floor.
sim_swap_tao_for_alpha_on(mechanism_id, subnet_tao, subnet_alpha_in, tao, min_liquidity) ==
    IF mechanism_id = 1
    THEN dynamic_tao_for_alpha(ufix_from_int(subnet_tao, 18), ufix_from_int(subnet_alpha_in, 18),
                               ufix_from_int(tao, 18), ufix_from_int(min_liquidity, 18))
    ELSE Some(tao)

\* A faulty sim_swap_alpha_for_tao_on, which prices a Stable subnet as a Dynamic one.
sim_swap_alpha_for_tao_on_always_dynamic(mechanism_id, subnet_tao, subnet_alpha_in, alpha, min_liquidity) ==
    dynamic_alpha_for_tao(ufix_from_int(subnet_tao, 18), ufix_from_int(subnet_alpha_in, 18),
                          ufix_from_int(alpha, 18), ufix_from_int(min_liquidity, 18))

\* sim_swap_alpha_for_tao on explicit storage values.
sim_swap_alpha_for_tao_on(mechanism_id, subnet_tao, subnet_alpha_in, alpha, min_liquidity) ==
    IF mechanism_id = 1
    THEN dynamic_alpha_for_tao(ufix_from_int(subnet_tao, 18), ufix_from_int(subnet_alpha_in, 18),
                               ufix_from_int(alpha, 18), ufix_from_int(min_liquidity, 18))
    ELSE Some(alpha)

----------------------------------------------------------------------------
(* Spot price and moving price *)

RootNetuid == 0

OneU96F32 == Two32

\* A faulty get_alpha_price_on, which prices the root subnet by its reserves.
get_alpha_price_on_without_root(netuid, mechanism_id, subnet_tao, subnet_alpha_in) ==
    IF mechanism_id = 0 THEN OneU96F32
    ELSE IF subnet_alpha_in = Z THEN Z
    ELSE ufix_safe_div(ufix_from_int(subnet_tao, 32), ufix_from_int(subnet_alpha_in, 32), 32)

\* get_alpha_price on explicit storage values.
get_alpha_price_on(netuid, mechanism_id, subnet_tao, subnet_alpha_in) ==
    IF netuid = RootNetuid THEN OneU96F32
    ELSE IF mechanism_id = 0 THEN OneU96F32
    ELSE IF subnet_alpha_in = Z THEN Z
    ELSE ufix_safe_div(ufix_from_int(subnet_tao, 32), ufix_from_int(subnet_alpha_in, 32), 32)

\* get_moving_alpha_price on explicit storage values.
get_moving_alpha_price_on(netuid, mechanism_id, subnet_moving_price) ==
    IF netuid = RootNetuid THEN OneU96F32
    ELSE IF mechanism_id = 0 THEN OneU96F32
    ELSE ufix_from_ifix(subnet_moving_price)

\* I96F32::from_num of a small integer.
I96F32(neg, n) == SInt(neg, NMul(N(n), Two32))

\* f(x) = ((a x^3 + b) x^3 + c) x + d as the code computes it in I96F32, with
\* a = 7/2, b = -1, c = 3/2 and d = -1 * 4.
ema_poly(x, x_cubed) ==
    ifix_saturating_add(
        ifix_saturating_mul(
            ifix_saturating_add(
                ifix_saturating_mul(
                    ifix_saturating_add(
                        ifix_saturating_mul(ifix_safe_div(I96F32(FALSE, 7), I96F32(FALSE, 2), 32),
                                            x_cubed, 32),
                        I96F32(TRUE, 1)),
                    x_cubed, 32),
                ifix_safe_div(I96F32(FALSE, 3), I96F32(FALSE, 2), 32)),
            x, 32),
        ifix_saturating_mul(I96F32(TRUE, 1), I96F32(FALSE, 4), 32))

ema_f_x(x) == ema_poly(x, ifix_saturating_mul(ifix_saturating_mul(x, x, 32), x, 32))

\* A faulty ema_x, with the operands of the subtraction swapped:
\* x = 1 - 2 l / liquidity_scale_max.
ema_x_mirrored(l, liquidity_scale_max) ==
    ifix_saturating_add(
        SNeg(ifix_safe_div(ifix_saturating_mul(I96F32(FALSE, 2), ifix_from_ufix(l), 32),
                           ifix_from_ufix(liquidity_scale_max), 32)),
        I96F32(FALSE, 1))

\* x = 2 l / liquidity_scale_max - 1 as the code computes it in I96F32.
ema_x(l, liquidity_scale_max) ==
    ifix_saturating_add(
        ifix_safe_div(ifix_saturating_mul(I96F32(FALSE, 2), ifix_from_ufix(l), 32),
                      ifix_from_ufix(liquidity_scale_max), 32),
        I96F32(TRUE, 1))

\* exp_int: ceil(|f(x)|) as a u32 (never above 10 for x in [-1, 1)), as a TLA+ natural.
ema_exp_int(l, liquidity_scale_max) ==
    ToNat(NDiv(ifix_ceil(ifix_saturating_abs(ema_f_x(ema_x(l, liquidity_scale_max))), 32).mag,
               Two32))

RECURSIVE ema_divide(_, _)
\* The loop `for _ in 0..exp_int { alpha = alpha.safe_div(ten) }`.
ema_divide(alpha, n) ==
    IF n = 0 THEN alpha
    ELSE ema_divide(ifix_safe_div(alpha, I96F32(FALSE, 10), 32), n - 1)

\* compute_alpha_for_ema(l, liquidity_scale_max): U96F32 raw bits in and out.
compute_alpha_for_ema(l, liquidity_scale_max) ==
    IF NLe(liquidity_scale_max, l) THEN OneU96F32
    ELSE ufix_from_ifix(ema_divide(I96F32(FALSE, 1), ema_exp_int(l, liquidity_scale_max)))

\* checked_sqrt(k, epsilon).unwrap_or(0) on U96F32: the square root of k, to
\* the last fractional bit.
checked_sqrt(k) == NSqrt(NMul(k, Two32))

\* A faulty ema_blend, which does not clamp the blend.
ema_blend_without_clamp(alpha, current_price, moving_price) ==
    ifix_from_ufix(
        ufix_saturating_add(
            ufix_saturating_mul(alpha, current_price, 32),
            ufix_saturating_mul(ufix_saturating_sub(OneU96F32, alpha), moving_price, 32)))

\* The blend alpha * current + (1 - alpha) * moving, clamped to the current price.
ema_blend(alpha, current_price, moving_price) ==
    ifix_min(ifix_from_ufix(
                 ufix_saturating_add(
                     ufix_saturating_mul(alpha, current_price, 32),
                     ufix_saturating_mul(ufix_saturating_sub(OneU96F32, alpha),
                                         moving_price, 32))),
             ifix_from_ufix(current_price))

\* The liquidity l of update_moving_price: the root of the product of the
\* reserves in units of 10^9 rao.
ema_liquidity(subnet_tao, subnet_alpha_in) ==
    checked_sqrt(
        ufix_saturating_mul(
            ufix_safe_div(ufix_from_int(subnet_tao, 32), ufix_from_int(N(1000000000), 32), 32),
            ufix_safe_div(ufix_from_int(subnet_alpha_in, 32), ufix_from_int(N(1000000000), 32), 32),
            32))

\* The value update_moving_price stores in SubnetMovingPrice (I96F32), on
\* explicit storage values.
update_moving_price_on(netuid, mechanism_id, subnet_tao, subnet_alpha_in, liquidity_scale_max, subnet_moving_price) ==
    ema_blend(compute_alpha_for_ema(ema_liquidity(subnet_tao, subnet_alpha_in),
                                    ufix_from_int(liquidity_scale_max, 32)),
              get_alpha_price_on(netuid, mechanism_id, subnet_tao, subnet_alpha_in),
              get_moving_alpha_price_on(netuid, mechanism_id, subnet_moving_price))

----------------------------------------------------------------------------
(* Storage.  A store is a record with one field per storage item the code   *)
(* reads or writes.  Maps with a default (ValueQuery) over the subnets are    *)
(* functions on Netuids; the share-pool maps are partial functions, an absent *)
(* key reading as the default 0.                                              *)

Netuids == {0, 1, 2}
Hotkeys == {1}
Coldkeys == {1}

MapGet(m, k) == IF k \in DOMAIN m THEN m[k] ELSE Z
MapPut(m, k, v) == [y \in DOMAIN m \cup {k} |-> IF y = k THEN v ELSE m[y]]
MapRemove(m, k) == [y \in DOMAIN m \ {k} |-> m[y]]
\* StorageMap::insert of a non-zero value, StorageMap::remove otherwise.
MapSet(m, k, v) == IF v # Z THEN MapPut(m, k, v) ELSE MapRemove(m, k)

\* HotkeyAlphaSharePoolDataOperations: the storage behind one (hotkey, netuid) pool.
get_shared_value(S, hotkey, netuid) ==
    ufix_from_int(MapGet(S.TotalHotkeyAlpha, << hotkey, netuid >>), 64)
get_share(S, hotkey, netuid, key) == MapGet(S.Alpha, << hotkey, key, netuid >>)
try_get_share(S, hotkey, netuid, key) ==
    IF << hotkey, key, netuid >> \in DOMAIN S.Alpha
    THEN Some(S.Alpha[<< hotkey, key, netuid >>]) ELSE None
get_denominator(S, hotkey, netuid) == MapGet(S.TotalHotkeyShares, << hotkey, netuid >>)
set_shared_value(S, hotkey, netuid, value) ==
    [S EXCEPT !.TotalHotkeyAlpha = IF value # Z
                                   THEN MapPut(@, << hotkey, netuid >>, ufix_to_u64(value, 64))
                                   ELSE MapRemove(@, << hotkey, netuid >>)]
set_share(S, hotkey, netuid, key, share) ==
    [S EXCEPT !.Alpha = MapSet(@, << hotkey, key, netuid >>, share)]
set_denominator(S, hotkey, netuid, update) ==
    [S EXCEPT !.TotalHotkeyShares = MapSet(@, << hotkey, netuid >>, update)]

----------------------------------------------------------------------------
(* The share pool (crate share_pool), as the specification describes it *)

\* `amount as i64`: the two's complement reading of a u64.
as_i64(amount) == IF NLt(amount, Two63) THEN SInt(FALSE, amount)
                  ELSE SInt(TRUE, NSub(Two64, amount))

\* SharePool::get_value: the key's share of the shared value, rounded down.
get_value(S, hotkey, netuid, key) ==
    ufix_to_u64(ufix_saturating_mul(ufix_safe_div(get_shared_value(S, hotkey, netuid),
                                                  get_denominator(S, hotkey, netuid), 64),
                                    get_share(S, hotkey, netuid, key), 64), 64)

\* SharePool::try_get_value.
try_get_value(S, hotkey, netuid, key) ==
    IF try_get_share(S, hotkey, netuid, key).some
    THEN Some(get_value(S, hotkey, netuid, key)) ELSE None

\* The shared value (U64F64) moved by a signed update.
moved_value(shared_value, update) ==
    IF update.neg THEN ufix_saturating_sub(shared_value, ufix_from_int(update.mag, 64))
    ELSE ufix_saturating_add(shared_value, ufix_from_int(update.mag, 64))

\* SharePool::update_value_for_all: the shared value moves by a signed update.
update_value_for_all(S, hotkey, netuid, update) ==
    set_shared_value(S, hotkey, netuid, moved_value(get_shared_value(S, hotkey, netuid), update))

\* The shares (I64F64) a signed update buys at the current value per share.
get_shares_per_update(update, shared_value, denominator) ==
    ifix_safe_div(ifix_from_int(update.neg, update.mag, 64),
                  ifix_from_ufix(ufix_safe_div(shared_value, denominator, 64)), 64)

\* The store with the key's share and the denominator of a pool written.
set_shares(S, hotkey, netuid, key, share, denominator) ==
    set_share(set_denominator(S, hotkey, netuid, denominator), hotkey, netuid, key, share)

\* The key's share and the denominator after an update that buys `shares`:
\* an empty pool is seeded one share per unit of value.
update_shares(S, hotkey, netuid, key, update, current_share, denominator, shares) ==
    IF denominator = Z
    THEN set_shares(S, hotkey, netuid, key,
                    IF update.neg THEN Z ELSE ufix_from_int(update.mag, 64),
                    IF update.neg THEN Z ELSE ufix_from_int(update.mag, 64))
    ELSE IF ~shares.neg
    THEN set_shares(S, hotkey, netuid, key,
                    ufix_saturating_add(current_share, shares.mag),
                    ufix_saturating_add(denominator, shares.mag))
    ELSE set_shares(S, hotkey, netuid, key,
                    ufix_saturating_sub(current_share, shares.mag),
                    ufix_saturating_sub(denominator, shares.mag))

\* SharePool::update_value_for_one: the key's share, the denominator and the
\* shared value after a signed update, and the update applied.
update_value_for_one(S, hotkey, netuid, key, update) ==
    [st |-> update_value_for_all(
                update_shares(S, hotkey, netuid, key, update,
                              get_share(S, hotkey, netuid, key),
                              get_denominator(S, hotkey, netuid),
                              get_shares_per_update(update, get_shared_value(S, hotkey, netuid),
                                                    get_denominator(S, hotkey, netuid))),
                hotkey, netuid, update),
     ret |-> update]

\* `actual_alpha.max(0).unsigned_abs()`.
max0_unsigned_abs(actual_alpha) == IF actual_alpha.neg THEN Z ELSE actual_alpha.mag

\* increase_stake_for_hotkey_and_coldkey_on_subnet, given what
\* update_value_for_one did: the store after it and the alpha it reports.
increased_stake(r) == [st |-> r.st, ret |-> max0_unsigned_abs(r.ret)]

increase_stake_for_hotkey_and_coldkey_on_subnet(S, hotkey, coldkey, netuid, amount) ==
    increased_stake(update_value_for_one(S, hotkey, netuid, coldkey, as_i64(amount)))

----------------------------------------------------------------------------
(* Pool operations on a store *)

get_alpha_price(S, netuid) ==
    get_alpha_price_on(netuid, S.SubnetMechanism[netuid], S.SubnetTAO[netuid],
                       S.SubnetAlphaIn[netuid])

get_moving_alpha_price(S, netuid) ==
    get_moving_alpha_price_on(netuid, S.SubnetMechanism[netuid], S.SubnetMovingPrice[netuid])

sim_swap_tao_for_alpha(S, netuid, tao) ==
    sim_swap_tao_for_alpha_on(S.SubnetMechanism[netuid], S.SubnetTAO[netuid],
                              S.SubnetAlphaIn[netuid], tao, S.MinimumPoolLiquidity)

sim_swap_alpha_for_tao(S, netuid, alpha) ==
    sim_swap_alpha_for_tao_on(S.SubnetMechanism[netuid], S.SubnetTAO[netuid],
                              S.SubnetAlphaIn[netuid], alpha, S.MinimumPoolLiquidity)

\* A faulty swapped_tao_for_alpha, which leaves TotalStake as it was.
swapped_tao_for_alpha_without_total_stake(S, netuid, tao, sim) ==
    IF sim.some
    THEN [st |-> [S EXCEPT !.SubnetAlphaIn[netuid]  = u64_saturating_sub(@, sim.val),
                           !.SubnetAlphaOut[netuid] = u64_saturating_add(@, sim.val),
                           !.SubnetTAO[netuid]      = u64_saturating_add(@, tao),
                           !.SubnetVolume[netuid]   = u128_saturating_add(@, tao)],
          ret |-> sim.val]
    ELSE [st |-> S, ret |-> Z]

\* swap_tao_for_alpha, given what the simulation reported: the store after it
\* and the alpha returned.
swapped_tao_for_alpha(S, netuid, tao, sim) ==
    IF sim.some
    THEN [st |-> [S EXCEPT !.SubnetAlphaIn[netuid]  = u64_saturating_sub(@, sim.val),
                           !.SubnetAlphaOut[netuid] = u64_saturating_add(@, sim.val),
                           !.SubnetTAO[netuid]      = u64_saturating_add(@, tao),
                           !.TotalStake             = u64_saturating_add(@, tao),
                           !.SubnetVolume[netuid]   = u128_saturating_add(@, tao)],
          ret |-> sim.val]
    ELSE [st |-> S, ret |-> Z]

swap_tao_for_alpha(S, netuid, tao) ==
    swapped_tao_for_alpha(S, netuid, tao, sim_swap_tao_for_alpha(S, netuid, tao))

\* A faulty swapped_alpha_for_tao, which books the alpha of a rejected swap.
swapped_alpha_for_tao_when_rejected(S, netuid, alpha, sim) ==
    [st |-> [S EXCEPT !.SubnetAlphaIn[netuid]  = u64_saturating_add(@, alpha),
                      !.SubnetAlphaOut[netuid] = u64_saturating_sub(@, alpha),
                      !.SubnetTAO[netuid]      = u64_saturating_sub(@, sim.val),
                      !.TotalStake             = u64_saturating_sub(@, sim.val),
                      !.SubnetVolume[netuid]   = u128_saturating_add(@, sim.val)],
     ret |-> sim.val]

\* A faulty swapped_alpha_for_tao, which leaves SubnetAlphaOut as it was.
swapped_alpha_for_tao_keeping_alpha_out(S, netuid, alpha, sim) ==
    IF sim.some
    THEN [st |-> [S EXCEPT !.SubnetAlphaIn[netuid]  = u64_saturating_add(@, alpha),
                           !.SubnetTAO[netuid]      = u64_saturating_sub(@, sim.val),
                           !.TotalStake             = u64_saturating_sub(@, sim.val),
                           !.SubnetVolume[netuid]   = u128_saturating_add(@, sim.val)],
          ret |-> sim.val]
    ELSE [st |-> S, ret |-> Z]

\* swap_alpha_for_tao, given what the simulation reported: the store after it
\* and the tao returned.
swapped_alpha_for_tao(S, netuid, alpha, sim) ==
    IF sim.some
    THEN [st |-> [S EXCEPT !.SubnetAlphaIn[netuid]  = u64_saturating_add(@, alpha),
                           !.SubnetAlphaOut[netuid] = u64_saturating_sub(@, alpha),
                           !.SubnetTAO[netuid]      = u64_saturating_sub(@, sim.val),
                           !.TotalStake             = u64_saturating_sub(@, sim.val),
                           !.SubnetVolume[netuid]   = u128_saturating_add(@, sim.val)],
          ret |-> sim.val]
    ELSE [st |-> S, ret |-> Z]

swap_alpha_for_tao(S, netuid, alpha) ==
    swapped_alpha_for_tao(S, netuid, alpha, sim_swap_alpha_for_tao(S, netuid, alpha))

\* get_alpha_issuance: SubnetAlphaIn.saturating_add(SubnetAlphaOut).
get_alpha_issuance(S, netuid) ==
    u64_saturating_add(S.SubnetAlphaIn[netuid], S.SubnetAlphaOut[netuid])

\* update_moving_price: the store after it.
update_moving_price(S, netuid) ==
    [S EXCEPT !.SubnetMovingPrice[netuid] =
        update_moving_price_on(netuid, S.SubnetMechanism[netuid], S.SubnetTAO[netuid],
                               S.SubnetAlphaIn[netuid], S.LiquidityScaleMax[netuid], @)]

\* Steps 5 to 7 of stake_into_subnet: the fee is credited, the block recorded
\* and the event deposited.
stake_recorded(S, hotkey, coldkey, netuid, tao_staked, actual_fee, actual_alpha) ==
    [st |-> [S EXCEPT !.SubnetTAO[netuid] = u64_saturating_add(@, actual_fee),
                      !.TotalStake        = u64_saturating_add(@, actual_fee),
                      !.LastColdkeyHotkeyStakeBlock =
                          MapPut(@, << coldkey, hotkey >>, S.current_block),
                      !.events = Append(@, << "StakeAdded", coldkey, hotkey, tao_staked,
                                              actual_alpha, netuid, actual_fee >>)],
     ret |-> actual_alpha]

\* Step 4 of stake_into_subnet: the hotkey joins the coldkey's StakingHotkeys.
staking_hotkey_added(S, hotkey, coldkey) ==
    IF \E i \in 1..Len(S.StakingHotkeys[coldkey]) : S.StakingHotkeys[coldkey][i] = hotkey
    THEN S
    ELSE [S EXCEPT !.StakingHotkeys[coldkey] = Append(@, hotkey)]

\* Steps 3 and 4 of stake_into_subnet, given what
\* increase_stake_for_hotkey_and_coldkey_on_subnet did.
stake_increased(inc, hotkey, coldkey, netuid, tao_staked, actual_fee) ==
    stake_recorded(staking_hotkey_added(inc.st, hotkey, coldkey), hotkey, coldkey, netuid,
                   tao_staked, actual_fee, inc.ret)

\* stake_into_subnet after step 2, given what swap_tao_for_alpha did.
stake_swapped(sw, hotkey, coldkey, netuid, tao_staked, actual_fee) ==
    IF tao_staked # Z /\ sw.ret # Z
    THEN stake_increased(increase_stake_for_hotkey_and_coldkey_on_subnet(
                             sw.st, hotkey, coldkey, netuid, sw.ret),
                         hotkey, coldkey, netuid, tao_staked, actual_fee)
    ELSE stake_recorded(sw.st, hotkey, coldkey, netuid, tao_staked, actual_fee, Z)

\* stake_into_subnet after step 1.
stake_net_of_fee(S, hotkey, coldkey, netuid, tao, tao_staked) ==
    stake_swapped(swap_tao_for_alpha(S, netuid, tao_staked), hotkey, coldkey, netuid,
                  tao_staked, u64_saturating_sub(tao, tao_staked))

\* stake_into_subnet: the store after it and the alpha staked.
stake_into_subnet(S, hotkey, coldkey, netuid, tao, fee) ==
    stake_net_of_fee(S, hotkey, coldkey, netuid, tao, u64_saturating_sub(tao, fee))

----------------------------------------------------------------------------
(* Inherited stake and stake weights *)

\* get_stake_for_hotkey_on_subnet: TotalHotkeyAlpha of the hotkey on the subnet.
get_stake_for_hotkey_on_subnet(S, hotkey, netuid) ==
    MapGet(S.TotalHotkeyAlpha, << hotkey, netuid >>)

\* get_children and get_parents: the (proportion, key) edges stored for the
\* hotkey on the subnet, none when nothing is stored.
get_children(S, hotkey, netuid) == MapGet(S.ChildKeys, << hotkey, netuid >>)
get_parents(S, hotkey, netuid) == MapGet(S.ParentKeys, << hotkey, netuid >>)

\* proportion / u64::MAX in U96F32.
normalized_proportion(proportion) ==
    ufix_safe_div(ufix_from_int(proportion, 32), ufix_from_int(U64_MAX, 32), 32)

RECURSIVE to_children(_, _, _)
\* The loop over the children from the i-th on: the sum of
\* initial * normalized_proportion in U96F32.
to_children(initial, children, i) ==
    IF i > Len(children) THEN Z
    ELSE ufix_saturating_add(
             ufix_saturating_mul(initial, normalized_proportion(children[i][1]), 32),
             to_children(initial, children, i + 1))

RECURSIVE from_parents(_, _, _, _)
\* The loop over the parents from the i-th on: the sum of the parent's
\* TotalHotkeyAlpha on the subnet `netuid` * normalized_proportion in U96F32.
from_parents(S, parents, netuid, i) ==
    IF i > Len(parents) THEN Z
    ELSE ufix_saturating_add(
             ufix_saturating_mul(
                 ufix_from_int(get_stake_for_hotkey_on_subnet(S, parents[i][2], netuid), 32),
                 normalized_proportion(parents[i][1]), 32),
             from_parents(S, parents, netuid, i + 1))

\* A faulty finalized, which cuts each of the three amounts down to an integer
\* before it combines them.
finalized_truncating_each(initial, given, received) ==
    NMin(NAdd(NSub(ufix_to_u64(initial, 32), ufix_to_u64(given, 32)),
              ufix_to_u64(received, 32)), U64_MAX)

\* A faulty finalized, which adds what goes to the children.
finalized_adding_children(initial, given, received) ==
    ufix_to_u64(ufix_saturating_add(ufix_saturating_add(initial, given), received), 32)

\* Steps 5 and 6: initial - to_children + from_parents, saturating, as a u64.
finalized(initial, given, received) ==
    ufix_to_u64(ufix_saturating_add(ufix_saturating_sub(initial, given), received), 32)

\* A faulty inherited_with_edges, which takes from a parent what the parent
\* itself inherits (one more level) instead of its TotalHotkeyAlpha.
RECURSIVE from_parents_inherited(_, _, _, _, _)
from_parents_inherited(S, parents, stake_netuid, netuid, i) ==
    IF i > Len(parents) THEN Z
    ELSE ufix_saturating_add(
             ufix_saturating_mul(
                 ufix_from_int(
                     finalized(ufix_from_int(get_stake_for_hotkey_on_subnet(
                                                 S, parents[i][2], stake_netuid), 32),
                               to_children(ufix_from_int(get_stake_for_hotkey_on_subnet(
                                                             S, parents[i][2], stake_netuid), 32),
                                           get_children(S, parents[i][2], netuid), 1),
                               from_parents(S, get_parents(S, parents[i][2], netuid),
                                            stake_netuid, 1)), 32),
                 normalized_proportion(parents[i][1]), 32),
             from_parents_inherited(S, parents, stake_netuid, netuid, i + 1))

inherited_with_edges_two_levels(S, hotkey, stake_netuid, netuid) ==
    finalized(ufix_from_int(get_stake_for_hotkey_on_subnet(S, hotkey, stake_netuid), 32),
              to_children(ufix_from_int(get_stake_for_hotkey_on_subnet(S, hotkey, stake_netuid), 32),
                          get_children(S, hotkey, netuid), 1),
              from_parents_inherited(S, get_parents(S, hotkey, netuid), stake_netuid, netuid, 1))

\* Steps 2 to 6 of both inheritance functions: the stake of the hotkey on the
\* subnet stake_netuid, less what the edges on the subnet netuid give to its
\* children, plus what they bring from its parents' stake on stake_netuid.
inherited_with_edges(S, hotkey, stake_netuid, netuid) ==
    finalized(ufix_from_int(get_stake_for_hotkey_on_subnet(S, hotkey, stake_netuid), 32),
              to_children(ufix_from_int(get_stake_for_hotkey_on_subnet(S, hotkey, stake_netuid), 32),
                          get_children(S, hotkey, netuid), 1),
              from_parents(S, get_parents(S, hotkey, netuid), stake_netuid, 1))

\* get_tao_inherited_for_hotkey_on_subnet: the stake is the one on the root.
get_tao_inherited_for_hotkey_on_subnet(S, hotkey, netuid) ==
    inherited_with_edges(S, hotkey, RootNetuid, netuid)

\* get_inherited_for_hotkey_on_subnet: on subnet 0 the stake itself.
get_inherited_for_hotkey_on_subnet(S, hotkey, netuid) ==
    IF netuid = 0
    THEN ufix_to_u64(ufix_from_int(get_stake_for_hotkey_on_subnet(S, hotkey, netuid), 32), 32)
    ELSE inherited_with_edges(S, hotkey, netuid, netuid)

\* set_tao_weight: the store after it.
set_tao_weight(S, weight) == [S EXCEPT !.TaoWeight = weight]

\* get_tao_weight: TaoWeight / u64::MAX in U96F32.
get_tao_weight(S) ==
    ufix_safe_div(ufix_from_int(S.TaoWeight, 32), ufix_from_int(U64_MAX, 32), 32)

\* I64F64::saturating_from_num of a U96F32: 32 more fractional bits.
i64f64_from_u96f32(u) == SSat(SInt(FALSE, NMul(u, Two32)))

\* alpha_stake + tao_stake * tao_weight in I64F64, with the two stakes.
stake_weights(alpha_stake, tao_stake, tao_weight) ==
    << ifix_saturating_add(alpha_stake, ifix_saturating_mul(tao_stake, tao_weight, 64)),
       alpha_stake, tao_stake >>

\* get_stake_weights_for_hotkey_on_subnet: (total_stake, alpha_stake, tao_stake).
get_stake_weights_for_hotkey_on_subnet(S, hotkey, netuid) ==
    stake_weights(ifix_from_int(FALSE, get_inherited_for_hotkey_on_subnet(S, hotkey, netuid), 64),
                  ifix_from_int(FALSE, get_tao_inherited_for_hotkey_on_subnet(S, hotkey, netuid), 64),
                  i64f64_from_u96f32(get_tao_weight(S)))

\* Steps 2 and 3 of get_stake_weights_for_network: the alpha and the tao
\* stake of the key registered at a uid, 0 when none is.
alpha_stake_of_uid(S, netuid, uid) ==
    IF << netuid, uid >> \in DOMAIN S.Keys
    THEN ifix_from_int(FALSE, get_inherited_for_hotkey_on_subnet(
                                  S, S.Keys[<< netuid, uid >>], netuid), 64)
    ELSE ifix_from_int(FALSE, Z, 64)

\* A faulty tao_stake_of_uid, which reads the key of the uid before.
tao_stake_of_uid_shifted(S, netuid, uid) ==
    IF << netuid, uid >> \in DOMAIN S.Keys /\ << netuid, uid - 1 >> \in DOMAIN S.Keys
    THEN ifix_from_int(FALSE, get_tao_inherited_for_hotkey_on_subnet(
                                  S, S.Keys[<< netuid, uid - 1 >>], netuid), 64)
    ELSE ifix_from_int(FALSE, Z, 64)

tao_stake_of_uid(S, netuid, uid) ==
    IF << netuid, uid >> \in DOMAIN S.Keys
    THEN ifix_from_int(FALSE, get_tao_inherited_for_hotkey_on_subnet(
                                  S, S.Keys[<< netuid, uid >>], netuid), 64)
    ELSE ifix_from_int(FALSE, Z, 64)

\* Step 4: the three vectors from the alpha and the tao vector (index i holds uid i - 1).
zipped_stake_weights(alpha_stake, tao_stake, tao_weight) ==
    << [i \in DOMAIN alpha_stake |->
            ifix_saturating_add(alpha_stake[i],
                                ifix_saturating_mul(tao_stake[i], tao_weight, 64))],
       alpha_stake, tao_stake >>

\* get_stake_weights_for_network: (total_stake, alpha_stake, tao_stake) over
\* the uids 0 .. n - 1.
get_stake_weights_for_network(S, netuid) ==
    zipped_stake_weights([i \in 1..S.SubnetworkN[netuid] |-> alpha_stake_of_uid(S, netuid, i - 1)],
                         [i \in 1..S.SubnetworkN[netuid] |-> tao_stake_of_uid(S, netuid, i - 1)],
                         i64f64_from_u96f32(get_tao_weight(S)))

----------------------------------------------------------------------------
(* Validation *)

\* Pallet::if_subnet_exist: the subnet is one of the networks added.
if_subnet_exist(S, netuid) == netuid \in S.NetworksAdded

\* Pallet::hotkey_account_exists: the hotkey has an owner.
hotkey_account_exists(S, hotkey) == hotkey \in S.Owner

\* Pallet::can_remove_balance_from_coldkey_account: the balance covers the amount.
can_remove_balance_from_coldkey_account(S, coldkey, amount) == NLe(amount, S.Balances[coldkey])

\* SharePool::sim_update_value_for_one: whether the update would buy any
\* share; an empty pool takes every update.
sim_update_value_for_one(S, hotkey, netuid, update) ==
    IF get_denominator(S, hotkey, netuid) = Z THEN TRUE
    ELSE get_shares_per_update(update, get_shared_value(S, hotkey, netuid),
                               get_denominator(S, hotkey, netuid)).mag # Z

\* A faulty try_increase_stake_for_hotkey_and_coldkey_on_subnet, which makes
\* the increase on behalf of coldkey 1 instead of simulating it.
try_increase_stake_by_increasing(S, hotkey, netuid, amount) ==
    [st |-> increase_stake_for_hotkey_and_coldkey_on_subnet(S, hotkey, 1, netuid, amount).st,
     ret |-> sim_update_value_for_one(S, hotkey, netuid, as_i64(amount))]

\* try_increase_stake_for_hotkey_and_coldkey_on_subnet: the store after it
\* and what it returns.
try_increase_stake_for_hotkey_and_coldkey_on_subnet(S, hotkey, netuid, amount) ==
    [st |-> S, ret |-> sim_update_value_for_one(S, hotkey, netuid, as_i64(amount))]

\* get_stake_for_hotkey_and_coldkey_on_subnet: try_get_value(coldkey).unwrap_or(0).
get_stake_for_hotkey_and_coldkey_on_subnet(S, hotkey, coldkey, netuid) ==
    IF try_get_value(S, hotkey, netuid, coldkey).some
    THEN try_get_value(S, hotkey, netuid, coldkey).val ELSE Z

\* A faulty has_enough_stake_on_subnet, which is content with any stake at all.
has_any_stake_on_subnet(S, hotkey, coldkey, netuid, decrement) ==
    NLt(Z, get_stake_for_hotkey_and_coldkey_on_subnet(S, hotkey, coldkey, netuid))

has_enough_stake_on_subnet(S, hotkey, coldkey, netuid, decrement) ==
    NLe(decrement, get_stake_for_hotkey_and_coldkey_on_subnet(S, hotkey, coldkey, netuid))

\* A validation that stops with an error, or passes, without a pool check.
Verdict(S, ret) == [st |-> S, ret |-> ret]

\* The end of a validation: the verdict of the pool precision check t.
pool_precise_enough(t) == [st |-> t.st, ret |-> IF t.ret THEN "Ok" ELSE "InsufficientLiquidity"]

\* A faulty add_stake_min_amount, which leaves the fee out.
add_stake_min_amount_without_fee(S) == S.DefaultMinStake

\* validate_add_stake: min_amount.
add_stake_min_amount(S) == u64_saturating_add(S.DefaultMinStake, S.DefaultStakingFee)

\* A faulty validate_add_stake, which looks at the hotkey before the balance.
validate_add_stake_hotkey_first(S, coldkey, hotkey, netuid, stake_to_be_added, max_amount, allow_partial) ==
    IF ~if_subnet_exist(S, netuid) THEN Verdict(S, "SubnetNotExists")
    ELSE IF ~NLe(add_stake_min_amount(S), stake_to_be_added) THEN Verdict(S, "AmountTooLow")
    ELSE IF ~allow_partial /\ ~NLe(stake_to_be_added, max_amount)
    THEN Verdict(S, "SlippageTooHigh")
    ELSE IF ~hotkey_account_exists(S, hotkey) THEN Verdict(S, "HotKeyAccountNotExists")
    ELSE IF ~can_remove_balance_from_coldkey_account(S, coldkey, stake_to_be_added)
    THEN Verdict(S, "NotEnoughBalanceToStake")
    ELSE IF ~sim_swap_tao_for_alpha(S, netuid, stake_to_be_added).some
    THEN Verdict(S, "InsufficientLiquidity")
    ELSE pool_precise_enough(try_increase_stake_for_hotkey_and_coldkey_on_subnet(
             S, hotkey, netuid, sim_swap_tao_for_alpha(S, netuid, stake_to_be_added).val))

validate_add_stake(S, coldkey, hotkey, netuid, stake_to_be_added, max_amount, allow_partial) ==
    IF ~if_subnet_exist(S, netuid) THEN Verdict(S, "SubnetNotExists")
    ELSE IF ~NLe(add_stake_min_amount(S), stake_to_be_added) THEN Verdict(S, "AmountTooLow")
    ELSE IF ~allow_partial /\ ~NLe(stake_to_be_added, max_amount)
    THEN Verdict(S, "SlippageTooHigh")
    ELSE IF ~can_remove_balance_from_coldkey_account(S, coldkey, stake_to_be_added)
    THEN Verdict(S, "NotEnoughBalanceToStake")
    ELSE IF ~hotkey_account_exists(S, hotkey) THEN Verdict(S, "HotKeyAccountNotExists")
    ELSE IF ~sim_swap_tao_for_alpha(S, netuid, stake_to_be_added).some
    THEN Verdict(S, "InsufficientLiquidity")
    ELSE pool_precise_enough(try_increase_stake_for_hotkey_and_coldkey_on_subnet(
             S, hotkey, netuid, sim_swap_tao_for_alpha(S, netuid, stake_to_be_added).val))

validate_remove_stake(S, coldkey, hotkey, netuid, alpha_unstaked, max_amount, allow_partial) ==
    IF ~if_subnet_exist(S, netuid) THEN Verdict(S, "SubnetNotExists")
    ELSE IF ~sim_swap_alpha_for_tao(S, netuid, alpha_unstaked).some
    THEN Verdict(S, "InsufficientLiquidity")
    ELSE IF ~NLt(S.DefaultMinStake, sim_swap_alpha_for_tao(S, netuid, alpha_unstaked).val)
    THEN Verdict(S, "AmountTooLow")
    ELSE IF ~allow_partial /\ ~NLe(alpha_unstaked, max_amount)
    THEN Verdict(S, "SlippageTooHigh")
    ELSE IF ~hotkey_account_exists(S, hotkey) THEN Verdict(S, "HotKeyAccountNotExists")
    ELSE IF ~has_enough_stake_on_subnet(S, hotkey, coldkey, netuid, alpha_unstaked)
    THEN Verdict(S, "NotEnoughStakeToWithdraw")
    ELSE Verdict(S, "Ok")

\* A faulty transfer_toggled, which looks at the toggles whatever the flag.
transfer_toggled_always(S, origin_netuid, destination_netuid, check_transfer_toggle, t) ==
    IF t.ret /\ ~(S.TransferToggle[origin_netuid] /\ S.TransferToggle[destination_netuid])
    THEN [st |-> t.st, ret |-> "TransferDisallowed"]
    ELSE pool_precise_enough(t)

\* validate_stake_transition from the pool precision check t on: the
\* transfer toggles of both subnets when check_transfer_toggle is set.
transfer_toggled(S, origin_netuid, destination_netuid, check_transfer_toggle, t) ==
    IF /\ t.ret
       /\ check_transfer_toggle
       /\ ~(S.TransferToggle[origin_netuid] /\ S.TransferToggle[destination_netuid])
    THEN [st |-> t.st, ret |-> "TransferDisallowed"]
    ELSE pool_precise_enough(t)

\* expected_alpha: sim_swap_tao_for_alpha(...).unwrap_or(0).
expected_alpha(S, destination_netuid, tao_equivalent) ==
    IF sim_swap_tao_for_alpha(S, destination_netuid, tao_equivalent).some
    THEN sim_swap_tao_for_alpha(S, destination_netuid, tao_equivalent).val ELSE Z

\* maybe_allow_partial is None, Some(TRUE) or Some(FALSE); c is TRUE when
\* check_transfer_toggle is set.
validate_stake_transition(S, origin_coldkey, destination_coldkey, origin_hotkey, destination_hotkey, origin_netuid, destination_netuid, alpha_amount, max_amount, maybe_allow_partial, c) ==
    IF ~if_subnet_exist(S, origin_netuid) THEN Verdict(S, "SubnetNotExists")
    ELSE IF origin_netuid # destination_netuid /\ ~if_subnet_exist(S, destination_netuid)
    THEN Verdict(S, "SubnetNotExists")
    ELSE IF ~S.SubtokenEnabled[origin_netuid] THEN Verdict(S, "SubtokenDisabled")
    ELSE IF ~S.SubtokenEnabled[destination_netuid] THEN Verdict(S, "SubtokenDisabled")
    ELSE IF ~hotkey_account_exists(S, origin_hotkey) THEN Verdict(S, "HotKeyAccountNotExists")
    ELSE IF ~hotkey_account_exists(S, destination_hotkey)
    THEN Verdict(S, "HotKeyAccountNotExists")
    ELSE IF ~NLe(alpha_amount, get_stake_for_hotkey_and_coldkey_on_subnet(
                                   S, origin_hotkey, origin_coldkey, origin_netuid))
    THEN Verdict(S, "NotEnoughStakeToWithdraw")
    ELSE IF ~sim_swap_alpha_for_tao(S, origin_netuid, alpha_amount).some
    THEN Verdict(S, "InsufficientLiquidity")
    ELSE IF ~NLt(S.DefaultMinStake, sim_swap_alpha_for_tao(S, origin_netuid, alpha_amount).val)
    THEN Verdict(S, "AmountTooLow")
    ELSE IF maybe_allow_partial = Some(FALSE) /\ ~NLe(alpha_amount, max_amount)
    THEN Verdict(S, "SlippageTooHigh")
    ELSE transfer_toggled(S, origin_netuid, destination_netuid, c,
             try_increase_stake_for_hotkey_and_coldkey_on_subnet(
                 S, destination_hotkey, destination_netuid,
                 expected_alpha(S, destination_netuid,
                                sim_swap_alpha_for_tao(S, origin_netuid, alpha_amount).val)))

----------------------------------------------------------------------------
(* The deferred job scheduler *)

\* The six kinds of StakeJob; the last two add stake, the others remove it.
JobKinds == {"RemoveStakeLimit", "RemoveStake", "UnstakeAll", "UnstakeAllAlpha",
             "AddStakeLimit", "AddStake"}

\* A faulty actual_block_with_delay, without the delay.
actual_block_without_delay(current_block_number) == current_block_number

\* current_block_number.saturating_sub(DELAY_IN_BLOCKS).
actual_block_with_delay(current_block_number) ==
    IF current_block_number >= 1 THEN current_block_number - 1 ELSE 0

\* The orders in which the storage may yield the keys of a block: the file
\* does not say which, so every enumeration of the keys without repetition.
KeyOrders(S, block) ==
    {order \in [1..Cardinality({k \in DOMAIN S.StakeJobs : k[1] = block})
                    -> {k \in DOMAIN S.StakeJobs : k[1] = block}] :
        \A i, j \in DOMAIN order : i # j => order[i] # order[j]}

\* The jobs of StakeJobs at the keys of an order, each with its key's id.
JobsInKeyOrder(jobs, order) == [i \in DOMAIN order |-> [id |-> order[i][2]] @@ jobs[order[i]]]

\* StakeJobs::drain_prefix(block), given the order in which the storage
\* yields the keys of the block: the store without the jobs keyed to the
\* block, and those jobs.
drain_prefix(S, block, order) ==
    [st |-> [S EXCEPT !.StakeJobs = [k \in {o \in DOMAIN @ : o[1] # block} |-> @[k]]],
     ret |-> JobsInKeyOrder(S.StakeJobs, order)]

\* The bucket of a kind: the drained jobs of that kind, in the order drained.
bucket(stake_jobs, kind) == SelectSeq(stake_jobs, LAMBDA job : job.kind = kind)

\* altered_order: the first bit of the first byte of the parent hash.
altered_order(first_byte) == (first_byte \div 128) % 2 = 1

\* The place of the i-th job after a stable sort by coldkey, ascending or
\* descending.
sorted_place(jobs, i, descending) ==
    1 + Cardinality({j \in DOMAIN jobs :
                        \/ (~descending /\ jobs[j].coldkey < jobs[i].coldkey)
                        \/ (descending /\ jobs[j].coldkey > jobs[i].coldkey)
                        \/ (jobs[j].coldkey = jobs[i].coldkey /\ j < i)})

\* A faulty sort_by_coldkey, which leaves the bucket in the order drained.
sort_by_coldkey_left_unsorted(jobs, descending) == jobs

\* sort_by on the coldkey (a stable sort).
sort_by_coldkey(jobs, descending) ==
    [p \in DOMAIN jobs |-> jobs[CHOOSE i \in DOMAIN jobs : sorted_place(jobs, i, descending) = p]]

\* A faulty sorted_bucket, ascending by coldkey for every kind.
sorted_bucket_always_ascending(stake_jobs, kind, altered) ==
    sort_by_coldkey(bucket(stake_jobs, kind), altered)

\* The sorted bucket of a kind: ascending by coldkey for the kinds that
\* remove stake, descending for those that add it, the other way when altered.
sorted_bucket(stake_jobs, kind, altered) ==
    sort_by_coldkey(bucket(stake_jobs, kind),
                    (kind \in {"AddStakeLimit", "AddStake"}) # altered)

\* A faulty job_batches, whose sequence of buckets is never reversed.
job_batches_never_reversed(stake_jobs, altered) ==
    sorted_bucket(stake_jobs, "RemoveStakeLimit", altered)
    \o sorted_bucket(stake_jobs, "RemoveStake", altered)
    \o sorted_bucket(stake_jobs, "UnstakeAll", altered)
    \o sorted_bucket(stake_jobs, "UnstakeAllAlpha", altered)
    \o sorted_bucket(stake_jobs, "AddStakeLimit", altered)
    \o sorted_bucket(stake_jobs, "AddStake", altered)

\* job_batches, flattened: the jobs in the order they are executed.
job_batches(stake_jobs, altered) ==
    IF altered
    THEN sorted_bucket(stake_jobs, "AddStake", altered)
         \o sorted_bucket(stake_jobs, "AddStakeLimit", altered)
         \o sorted_bucket(stake_jobs, "UnstakeAllAlpha", altered)
         \o sorted_bucket(stake_jobs, "UnstakeAll", altered)
         \o sorted_bucket(stake_jobs, "RemoveStake", altered)
         \o sorted_bucket(stake_jobs, "RemoveStakeLimit", altered)
    ELSE sorted_bucket(stake_jobs, "RemoveStakeLimit", altered)
         \o sorted_bucket(stake_jobs, "RemoveStake", altered)
         \o sorted_bucket(stake_jobs, "UnstakeAll", altered)
         \o sorted_bucket(stake_jobs, "UnstakeAllAlpha", altered)
         \o sorted_bucket(stake_jobs, "AddStakeLimit", altered)
         \o sorted_bucket(stake_jobs, "AddStake", altered)

\* The event deposited for a job whose replay returned Ok or an error.
job_event(kind, ok) ==
    IF kind = "RemoveStakeLimit"
    THEN (IF ok THEN "AggregatedLimitedStakeRemoved" ELSE "FailedToRemoveAggregatedLimitedStake")
    ELSE IF kind = "RemoveStake"
    THEN (IF ok THEN "AggregatedStakeRemoved" ELSE "FailedToRemoveAggregatedStake")
    ELSE IF kind = "UnstakeAll"
    THEN (IF ok THEN "AggregatedUnstakeAllSucceeded" ELSE "AggregatedUnstakeAllFailed")
    ELSE IF kind = "UnstakeAllAlpha"
    THEN (IF ok THEN "AggregatedUnstakeAllAlphaSucceeded" ELSE "AggregatedUnstakeAllAlphaFailed")
    ELSE IF kind = "AddStakeLimit"
    THEN (IF ok THEN "AggregatedLimitedStakeAdded" ELSE "FailedToAddAggregatedLimitedStake")
    ELSE (IF ok THEN "AggregatedStakeAdded" ELSE "FailedToAddAggregatedStake")

RECURSIVE run_jobs_until_error(_, _, _, _)
\* A faulty run_jobs, which stops at the first job whose replay fails.
run_jobs_until_error(S, jobs, i, results) ==
    IF i > Len(jobs) THEN S
    ELSE IF ~results[jobs[i].id]
    THEN [S EXCEPT !.events = Append(@, << job_event(jobs[i].kind, FALSE),
                                           jobs[i].coldkey, jobs[i].hotkey, jobs[i].id >>)]
    ELSE run_jobs_until_error([S EXCEPT !.events =
                                  Append(@, << job_event(jobs[i].kind, TRUE),
                                               jobs[i].coldkey, jobs[i].hotkey, jobs[i].id >>)],
                              jobs, i + 1, results)

RECURSIVE run_jobs(_, _, _, _)
\* The loop over the jobs from the i-th on: the replay of a job through its
\* entry point returns results[id], and its event is deposited, with the
\* job's coldkey, hotkey and key id.
run_jobs(S, jobs, i, results) ==
    IF i > Len(jobs) THEN S
    ELSE run_jobs([S EXCEPT !.events = Append(@, << job_event(jobs[i].kind, results[jobs[i].id]),
                                                    jobs[i].coldkey, jobs[i].hotkey,
                                                    jobs[i].id >>)],
                  jobs, i + 1, results)

\* do_on_finalize, given the jobs drained: the store after the replays and
\* the jobs in the order executed.
finalized_jobs(d, altered, results) ==
    [st |-> run_jobs(d.st, job_batches(d.ret, altered), 1, results),
     ret |-> job_batches(d.ret, altered)]

\* A faulty tie_orders, of a sort that is not stable (sort_unstable_by): jobs
\* that compare equal may come out in any order, as if the vector had been
\* pushed in any order.
tie_orders_of_unstable_sort(stake_jobs) ==
    {[i \in DOMAIN stake_jobs |-> stake_jobs[p[i]]] :
        p \in {q \in [DOMAIN stake_jobs -> DOMAIN stake_jobs] :
                  \A i, j \in DOMAIN stake_jobs : i # j => q[i] # q[j]}}

\* The orders of the drained vector from which the sorted buckets may come:
\* Vec::sort_by is stable, so jobs that compare equal keep the one order
\* they were pushed in, that of the vector itself.
tie_orders(stake_jobs) == {stake_jobs}

\* do_on_finalize where the storage yields the keys of the drained block in
\* the given order: the outcomes the run may have.
do_on_finalize_outcomes(S, current_block_number, first_byte, results, order) ==
    {finalized_jobs([st  |-> drain_prefix(S, actual_block_with_delay(current_block_number),
                                          order).st,
                     ret |-> stake_jobs],
                    altered_order(first_byte), results) :
        stake_jobs \in tie_orders(drain_prefix(S, actual_block_with_delay(current_block_number),
                                                order).ret)}


----------------------------------------------------------------------------
(* Selling shares, and the stake of a hotkey as a whole *)

\* increase_stake_for_hotkey_on_subnet: the store after it.
increase_stake_for_hotkey_on_subnet(S, hotkey, netuid, amount) ==
    update_value_for_all(S, hotkey, netuid, as_i64(amount))

\* A faulty i64_neg, which keeps the sign.
i64_neg_keeping_sign(a) == a

\* i64::neg overflows on the one value without a negative, i64::MIN: a
\* build with overflow checks panics there ("attempt to negate with
\* overflow"), a build without them wraps.
i64_neg_overflows(a) == a.neg /\ a.mag = Two63

\* i64::neg where it returns; on i64::MIN (a build without overflow checks)
\* it wraps to i64::MIN.
i64_neg(a) == IF i64_neg_overflows(a) THEN a ELSE SNeg(a)

\* The outcomes of a call that computes `(amount as i64).neg()` when
\* negates holds and would return r: it returns r, or, when the negation
\* overflows, it either panics before it wrote anything (overflow checks on)
\* or returns r (overflow checks off).
neg_outcomes(S, negates, amount, r) ==
    {[panic |-> FALSE, st |-> r.st, ret |-> r.ret]}
    \cup (IF negates /\ i64_neg_overflows(as_i64(amount))
          THEN {[panic |-> TRUE, st |-> S, ret |-> Z]}
          ELSE {})

\* decrease_stake_for_hotkey_on_subnet where it returns: the store after it.
decrease_stake_for_hotkey_on_subnet(S, hotkey, netuid, amount) ==
    update_value_for_all(S, hotkey, netuid, i64_neg(as_i64(amount)))

\* decrease_stake_for_hotkey_on_subnet: its outcomes.
decrease_stake_for_hotkey_on_subnet_outcomes(S, hotkey, netuid, amount) ==
    neg_outcomes(S, TRUE, amount,
                 [st |-> decrease_stake_for_hotkey_on_subnet(S, hotkey, netuid, amount),
                  ret |-> Z])

\* `actual_alpha.neg().max(0).unsigned_abs()`.
neg_max0_unsigned_abs(actual_alpha) == max0_unsigned_abs(i64_neg(actual_alpha))

\* decrease_stake_for_hotkey_and_coldkey_on_subnet, given what
\* update_value_for_one did: the store after it and the alpha it reports.
decreased_stake(r) == [st |-> r.st, ret |-> neg_max0_unsigned_abs(r.ret)]

\* A faulty can_decrease, which asks only for a share entry.
can_decrease_any_amount(value, amount) == value.some

\* The guard of decrease_stake_for_hotkey_and_coldkey_on_subnet: the coldkey
\* has a share entry and its value covers the amount.
can_decrease(value, amount) == value.some /\ NLe(amount, value.val)

decrease_stake_for_hotkey_and_coldkey_on_subnet(S, hotkey, coldkey, netuid, amount) ==
    IF can_decrease(try_get_value(S, hotkey, netuid, coldkey), amount)
    THEN decreased_stake(update_value_for_one(S, hotkey, netuid, coldkey,
                                              i64_neg(as_i64(amount))))
    ELSE [st |-> S, ret |-> Z]

\* decrease_stake_for_hotkey_and_coldkey_on_subnet: its outcomes. The amount
\* is negated only under the guard; the negation of actual_alpha at the end
\* overflows only in a build in which the first one wrapped.
decrease_stake_for_hotkey_and_coldkey_on_subnet_outcomes(S, hotkey, coldkey, netuid, amount) ==
    neg_outcomes(S, can_decrease(try_get_value(S, hotkey, netuid, coldkey), amount), amount,
                 decrease_stake_for_hotkey_and_coldkey_on_subnet(S, hotkey, coldkey, netuid,
                                                                 amount))

\* Steps 4 and 5 of unstake_from_subnet: the fee is credited back, the block
\* recorded and the event deposited.
unstake_recorded(S, hotkey, coldkey, netuid, tao_unstaked, actual_fee, actual_alpha_decrease) ==
    [st |-> [S EXCEPT !.SubnetTAO[netuid] = u64_saturating_add(@, actual_fee),
                      !.TotalStake        = u64_saturating_add(@, actual_fee),
                      !.LastColdkeyHotkeyStakeBlock =
                          MapPut(@, << coldkey, hotkey >>, S.current_block),
                      !.events = Append(@, << "StakeRemoved", coldkey, hotkey, tao_unstaked,
                                              actual_alpha_decrease, netuid, actual_fee >>)],
     ret |-> tao_unstaked]

\* unstake_from_subnet after step 2, given what swap_alpha_for_tao did.
unstake_swapped(sw, hotkey, coldkey, netuid, tao_unstaked, actual_alpha_decrease) ==
    unstake_recorded(sw.st, hotkey, coldkey, netuid, tao_unstaked,
                     u64_saturating_sub(sw.ret, tao_unstaked), actual_alpha_decrease)

\* unstake_from_subnet after step 1, given what
\* decrease_stake_for_hotkey_and_coldkey_on_subnet did.
unstake_decreased(dec, sw, hotkey, coldkey, netuid, fee) ==
    unstake_swapped(sw, hotkey, coldkey, netuid, u64_saturating_sub(sw.ret, fee), dec.ret)

\* unstake_from_subnet, given step 1.
unstake_of(dec, hotkey, coldkey, netuid, fee) ==
    unstake_decreased(dec, swap_alpha_for_tao(dec.st, netuid, dec.ret), hotkey, coldkey,
                      netuid, fee)

\* unstake_from_subnet where it returns: the store after it and the tao
\* unstaked.
unstake_from_subnet(S, hotkey, coldkey, netuid, alpha, fee) ==
    unstake_of(decrease_stake_for_hotkey_and_coldkey_on_subnet(S, hotkey, coldkey, netuid, alpha),
               hotkey, coldkey, netuid, fee)

\* unstake_from_subnet: its outcomes; it panics where its step 1 does.
unstake_from_subnet_outcomes(S, hotkey, coldkey, netuid, alpha, fee) ==
    neg_outcomes(S, can_decrease(try_get_value(S, hotkey, netuid, coldkey), alpha), alpha,
                 unstake_from_subnet(S, hotkey, coldkey, netuid, alpha, fee))

----------------------------------------------------------------------------
(* The staking fee *)

\* U96F32::saturating_from_num(0.00005): 0.00005 * 2^32, that is 214748.36..,
\* as U96F32 bits.
apr_20_percent == Dec(<< 21, 4748 >>)

\* The tao estimate of calculate_staking_fee (U96F32): what the alpha
\* estimate would swap for on the origin subnet, 0 if the swap is refused.
tao_estimate_for(sim) == ufix_from_int(IF sim.some THEN sim.val ELSE Z, 32)

\* The fee in proportion to the dividends of the origin hotkey per alpha it
\* held in the last epoch; safe_div gives 0 when it held none.
dividend_fee(tao_estimate, alpha_dividends, total_hotkey_alpha_last_epoch) ==
    ufix_to_u64(ufix_saturating_mul(tao_estimate,
                                    ufix_safe_div(ufix_from_int(alpha_dividends, 32),
                                                  ufix_from_int(total_hotkey_alpha_last_epoch, 32),
                                                  32),
                                    32), 32)

\* A faulty apr_fee, which is always 0.
apr_fee_of_nothing(tao_estimate) == Z

\* The least fee of a Dynamic origin, 0.005% of the tao estimate.
apr_fee(tao_estimate) ==
    ufix_to_u64(ufix_saturating_mul(tao_estimate, apr_20_percent, 32), 32)

\* A faulty dynamic_origin_fee, which leaves out the last max with
\* DefaultStakingFee.
dynamic_origin_fee_without_default(S, origin_hotkey, origin_netuid, tao_estimate) ==
    NMax(dividend_fee(tao_estimate,
                      MapGet(S.AlphaDividendsPerSubnet, << origin_netuid, origin_hotkey >>),
                      MapGet(S.TotalHotkeyAlphaLastEpoch, << origin_hotkey, origin_netuid >>)),
         apr_fee(tao_estimate))

\* The fee of a removal or a move from a Dynamic origin subnet other than the
\* root, given the tao estimate.
dynamic_origin_fee(S, origin_hotkey, origin_netuid, tao_estimate) ==
    NMax(NMax(dividend_fee(tao_estimate,
                           MapGet(S.AlphaDividendsPerSubnet, << origin_netuid, origin_hotkey >>),
                           MapGet(S.TotalHotkeyAlphaLastEpoch, << origin_hotkey, origin_netuid >>)),
              apr_fee(tao_estimate)),
         S.DefaultStakingFee)

\* calculate_staking_fee; origin and destination are None or Some of a hotkey
\* and a netuid, alpha_estimate is a U96F32.
calculate_staking_fee(S, origin, destination, alpha_estimate) ==
    IF ~origin.some THEN S.DefaultStakingFee
    ELSE IF destination.some /\ destination.val[2] = origin.val[2] THEN S.DefaultStakingFee
    ELSE IF origin.val[2] = RootNetuid \/ S.SubnetMechanism[origin.val[2]] = 0
    THEN S.DefaultStakingFee
    ELSE dynamic_origin_fee(S, origin.val[1], origin.val[2],
                            tao_estimate_for(sim_swap_alpha_for_tao(
                                S, origin.val[2], ufix_to_u64(alpha_estimate, 32))))
----------------------------------------------------------------------------
(* The state machine *)

VARIABLES SubnetMechanism, SubnetTAO, SubnetAlphaIn, SubnetAlphaOut, SubnetVolume,
          TotalStake, SubnetMovingPrice, LiquidityScaleMax, MinimumPoolLiquidity,
          TotalHotkeyAlpha, TotalHotkeyShares, Alpha, StakingHotkeys,
          LastColdkeyHotkeyStakeBlock, current_block, events,
          ChildKeys, ParentKeys, TaoWeight, Keys, SubnetworkN, NetworksAdded, Owner,
          Balances, SubtokenEnabled, TransferToggle, DefaultMinStake, DefaultStakingFee,
          StakeJobs, AlphaDividendsPerSubnet, TotalHotkeyAlphaLastEpoch,
          prev, hist, steps

vars == << SubnetMechanism, SubnetTAO, SubnetAlphaIn, SubnetAlphaOut, SubnetVolume,
           TotalStake, SubnetMovingPrice, LiquidityScaleMax, MinimumPoolLiquidity,
           TotalHotkeyAlpha, TotalHotkeyShares, Alpha, StakingHotkeys,
           LastColdkeyHotkeyStakeBlock, current_block, events,
           ChildKeys, ParentKeys, TaoWeight, Keys, SubnetworkN, NetworksAdded, Owner,
           Balances, SubtokenEnabled, TransferToggle, DefaultMinStake, DefaultStakingFee,
           StakeJobs, AlphaDividendsPerSubnet, TotalHotkeyAlphaLastEpoch,
           prev, hist, steps >>

\* The storage of the current state as a store.
Store ==
    [SubnetMechanism |-> SubnetMechanism, SubnetTAO |-> SubnetTAO,
     SubnetAlphaIn |-> SubnetAlphaIn, SubnetAlphaOut |-> SubnetAlphaOut,
     SubnetVolume |-> SubnetVolume, TotalStake |-> TotalStake,
     SubnetMovingPrice |-> SubnetMovingPrice, LiquidityScaleMax |-> LiquidityScaleMax,
     MinimumPoolLiquidity |-> MinimumPoolLiquidity,
     TotalHotkeyAlpha |-> TotalHotkeyAlpha, TotalHotkeyShares |-> TotalHotkeyShares,
     Alpha |-> Alpha, StakingHotkeys |-> StakingHotkeys,
     LastColdkeyHotkeyStakeBlock |-> LastColdkeyHotkeyStakeBlock,
     current_block |-> current_block, events |-> events,
     ChildKeys |-> ChildKeys, ParentKeys |-> ParentKeys, TaoWeight |-> TaoWeight,
     Keys |-> Keys, SubnetworkN |-> SubnetworkN, NetworksAdded |-> NetworksAdded,
     Owner |-> Owner, Balances |-> Balances, SubtokenEnabled |-> SubtokenEnabled,
     TransferToggle |-> TransferToggle, DefaultMinStake |-> DefaultMinStake,
     DefaultStakingFee |-> DefaultStakingFee, StakeJobs |-> StakeJobs,
     AlphaDividendsPerSubnet |-> AlphaDividendsPerSubnet,
     TotalHotkeyAlphaLastEpoch |-> TotalHotkeyAlphaLastEpoch]

\* The next state's storage is the store S.
SetStore(S) ==
    /\ SubnetMechanism' = S.SubnetMechanism
    /\ SubnetTAO' = S.SubnetTAO
    /\ SubnetAlphaIn' = S.SubnetAlphaIn
    /\ SubnetAlphaOut' = S.SubnetAlphaOut
    /\ SubnetVolume' = S.SubnetVolume
    /\ TotalStake' = S.TotalStake
    /\ SubnetMovingPrice' = S.SubnetMovingPrice
    /\ LiquidityScaleMax' = S.LiquidityScaleMax
    /\ MinimumPoolLiquidity' = S.MinimumPoolLiquidity
    /\ TotalHotkeyAlpha' = S.TotalHotkeyAlpha
    /\ TotalHotkeyShares' = S.TotalHotkeyShares
    /\ Alpha' = S.Alpha
    /\ StakingHotkeys' = S.StakingHotkeys
    /\ LastColdkeyHotkeyStakeBlock' = S.LastColdkeyHotkeyStakeBlock
    /\ current_block' = S.current_block
    /\ events' = S.events
    /\ ChildKeys' = S.ChildKeys
    /\ ParentKeys' = S.ParentKeys
    /\ TaoWeight' = S.TaoWeight
    /\ Keys' = S.Keys
    /\ SubnetworkN' = S.SubnetworkN
    /\ NetworksAdded' = S.NetworksAdded
    /\ Owner' = S.Owner
    /\ Balances' = S.Balances
    /\ SubtokenEnabled' = S.SubtokenEnabled
    /\ TransferToggle' = S.TransferToggle
    /\ DefaultMinStake' = S.DefaultMinStake
    /\ DefaultStakingFee' = S.DefaultStakingFee
    /\ StakeJobs' = S.StakeJobs
    /\ AlphaDividendsPerSubnet' = S.AlphaDividendsPerSubnet
    /\ TotalHotkeyAlphaLastEpoch' = S.TotalHotkeyAlphaLastEpoch

\* The record of one call: the block it was made in, the operation, its
\* arguments, the value it returned and, for a swap and a simulation, whether
\* the simulation reported Some.
Call(op, netuid, amount, fee, l, lmax, ret, ok) ==
    [block |-> current_block, op |-> op, netuid |-> netuid, amount |-> amount, fee |-> fee,
     l |-> l, lmax |-> lmax, ret |-> ret, ok |-> ok]

\* The longest run of calls explored.
MaxSteps == 2

\* A call that may write storage: the store after it, its record in front of
\* the record of the call before it, and the store it started from.
Step(S, c) ==
    /\ steps < MaxSteps
    /\ SetStore(S)
    /\ prev' = Store
    /\ hist' = IF hist = << >> THEN << c >> ELSE << c, hist[1] >>
    /\ steps' = steps + 1

\* A call that returned r = [st, ret].
Returned(op, netuid, amount, fee, r, ok) ==
    Step(r.st, Call(op, netuid, amount, fee, Z, Z, r.ret, ok))

\* The operation a record names: the call, or "panic" for a call that
\* panicked.
Outcome(op, o) == IF o.panic THEN "panic" ELSE op

\* A call that only reads storage, on a store nothing was called on yet: its
\* record alone.
Query(c) ==
    /\ hist = << >>
    /\ hist' = << c >>
    /\ UNCHANGED << SubnetMechanism, SubnetTAO, SubnetAlphaIn, SubnetAlphaOut, SubnetVolume,
                    TotalStake, SubnetMovingPrice, LiquidityScaleMax, MinimumPoolLiquidity,
                    TotalHotkeyAlpha, TotalHotkeyShares, Alpha, StakingHotkeys,
                    LastColdkeyHotkeyStakeBlock, current_block, events,
                    ChildKeys, ParentKeys, TaoWeight, Keys, SubnetworkN, NetworksAdded, Owner,
                    Balances, SubtokenEnabled, TransferToggle, DefaultMinStake,
                    DefaultStakingFee, StakeJobs, AlphaDividendsPerSubnet, TotalHotkeyAlphaLastEpoch,
                    prev, steps >>

\* A simulation that returned the Option r.
Simulated(op, netuid, amount, r) == Query(Call(op, netuid, amount, Z, Z, Z, r.val, r.some))

\* The amounts of tao swapped and staked, and the fees charged.
TaoAmounts == {N(1000), N(269616)}
StakeAmounts == {N(1000)}
Fees == {Z, N(50)}
\* The amounts of alpha swapped back: a small one, one above the tao the root
\* holds, and what the last call returned.
AlphaAmounts == {N(1000), N(4000000)} \cup (IF hist = << >> THEN {} ELSE {hist[1].ret})
\* The amounts of alpha unstaked.
UnstakeAlphaAmounts == {N(1000)}

SwapTaoForAlpha(netuid, tao) ==
    Returned("swap_tao_for_alpha", netuid, tao, Z, swap_tao_for_alpha(Store, netuid, tao),
             sim_swap_tao_for_alpha(Store, netuid, tao).some)

SwapAlphaForTao(netuid, alpha) ==
    Returned("swap_alpha_for_tao", netuid, alpha, Z, swap_alpha_for_tao(Store, netuid, alpha),
             sim_swap_alpha_for_tao(Store, netuid, alpha).some)

UpdateMovingPrice(netuid) ==
    Step(update_moving_price(Store, netuid),
         Call("update_moving_price", netuid, Z, Z, Z, Z, Z, TRUE))

StakeIntoSubnet(hotkey, coldkey, netuid, tao, fee) ==
    Returned("stake_into_subnet", netuid, tao, fee,
             stake_into_subnet(Store, hotkey, coldkey, netuid, tao, fee),
             sim_swap_tao_for_alpha(Store, netuid, u64_saturating_sub(tao, fee)).some)

\* The fees charged on unstaking: below and above what the alpha swaps for.
UnstakeFees == {N(50), N(2000)}

\* unstake_from_subnet of a hotkey and a coldkey on a subnet; the record's ok
\* is whether the swap of the alpha removed was accepted.
UnstakeFromSubnetOn(hotkey, coldkey, netuid, alpha, fee) ==
    /\ steps < MaxSteps
    /\ \E o \in unstake_from_subnet_outcomes(Store, hotkey, coldkey, netuid, alpha, fee) :
        Returned(Outcome("unstake_from_subnet", o), netuid, alpha, fee, o,
                 sim_swap_alpha_for_tao(
                     Store, netuid,
                     decrease_stake_for_hotkey_and_coldkey_on_subnet(
                         Store, hotkey, coldkey, netuid, alpha).ret).some)

\* The floors DefaultMinimumPoolLiquidity may be configured to.
MinimumPoolLiquidityValues == {N(500000), N(1000000)}

\* The storage the swaps, the moving price and stake_into_subnet never read:
\* no delegation, no registered key, no queued job, every subnet added with
\* its subtoken and transfers enabled.
NoDelegationNoJobs ==
    /\ ChildKeys = << >>
    /\ ParentKeys = << >>
    /\ TaoWeight = Z
    /\ Keys = << >>
    /\ SubnetworkN = [n \in Netuids |-> 0]
    /\ NetworksAdded = Netuids
    /\ Owner = Hotkeys
    /\ Balances = [c \in Coldkeys |-> Z]
    /\ SubtokenEnabled = [n \in Netuids |-> TRUE]
    /\ TransferToggle = [n \in Netuids |-> TRUE]
    /\ DefaultMinStake = N(500000)
    /\ DefaultStakingFee = N(50000)
    /\ StakeJobs = << >>
    /\ AlphaDividendsPerSubnet = << >>
    /\ TotalHotkeyAlphaLastEpoch = << >>

\* Three subnets: the root (Stable), a fresh Dynamic subnet with a million rao
\* on each side and no alpha issued, and a Dynamic subnet whose pool was
\* balanced at (5_228_968_326, 5_157_151_355) before 2_691_185_114_950 rao of
\* tao were swapped into it for 5_147_150_449 alpha, and whose moving price
\* still is the 300_000 of an earlier, higher spot price. The 3_000_000 alpha
\* outstanding on the root are the stake of (hotkey 1, coldkey 1), one share
\* per unit.
Init ==
    /\ SubnetMechanism = [n \in Netuids |-> IF n = 0 THEN 0 ELSE 1]
    /\ SubnetTAO = [n \in Netuids |-> IF n = 0 THEN N(3000000)
                                      ELSE IF n = 1 THEN N(1000000)
                                      ELSE Dec(<< 2, 6964, 1408, 3276 >>)]
    /\ SubnetAlphaIn = [n \in Netuids |-> IF n = 0 THEN Z
                                          ELSE IF n = 1 THEN N(1000000)
                                          ELSE N(10000906)]
    /\ SubnetAlphaOut = [n \in Netuids |-> IF n = 0 THEN N(3000000)
                                           ELSE IF n = 1 THEN Z
                                           ELSE Dec(<< 51, 4715, 449 >>)]
    /\ SubnetVolume = [n \in Netuids |-> IF n = 2 THEN Dec(<< 2, 6911, 8511, 4950 >>) ELSE Z]
    /\ TotalStake = Dec(<< 2, 6964, 1808, 3276 >>)
    /\ SubnetMovingPrice = [n \in Netuids |-> IF n = 2 THEN I96F32(FALSE, 300000) ELSE SZero]
    /\ LiquidityScaleMax = [n \in Netuids |-> IF n = 2 THEN N(10) ELSE N(1)]
    /\ MinimumPoolLiquidity \in MinimumPoolLiquidityValues
    /\ TotalHotkeyAlpha = (<< 1, 0 >> :> N(3000000))
    /\ TotalHotkeyShares = (<< 1, 0 >> :> ufix_from_int(N(3000000), 64))
    /\ Alpha = (<< 1, 1, 0 >> :> ufix_from_int(N(3000000), 64))
    /\ StakingHotkeys = [c \in Coldkeys |-> << 1 >>]
    /\ LastColdkeyHotkeyStakeBlock = << >>
    /\ current_block = 1
    /\ events = << >>
    /\ NoDelegationNoJobs
    /\ prev = Store
    /\ hist = << >>
    /\ steps = 0

Next ==
    \/ \E netuid \in Netuids, tao \in TaoAmounts : SwapTaoForAlpha(netuid, tao)
    \/ \E netuid \in Netuids, alpha \in AlphaAmounts : SwapAlphaForTao(netuid, alpha)
    \/ \E netuid \in Netuids : UpdateMovingPrice(netuid)
    \/ \E hotkey \in Hotkeys, coldkey \in Coldkeys, netuid \in Netuids,
          tao \in StakeAmounts, fee \in Fees :
            StakeIntoSubnet(hotkey, coldkey, netuid, tao, fee)
    \/ \E hotkey \in Hotkeys, coldkey \in Coldkeys, netuid \in Netuids,
          alpha \in UnstakeAlphaAmounts, fee \in UnstakeFees :
            UnstakeFromSubnetOn(hotkey, coldkey, netuid, alpha, fee)

Spec == Init /\ [][Next]_vars

----------------------------------------------------------------------------
(* The functions of one call, each called once on storage and arguments      *)
(* drawn from bounded sets that hold the corner values of u64 and of U96F32. *)

\* Reserves every subnet holds in a drawn store.
FnReserves == {Z, N(1), N(1000000), Dec(<< 51, 5715, 1355 >>), U64_MAX}
\* Amounts passed to the swaps and to their simulations.
FnAmounts == {Z, N(1000), U64_MAX}
\* Liquidity values l and scales liquidity_scale_max, as U96F32 bits: 0, 1/4,
\* 1/2, 3/4, 1 - 2^-32, 1, 8007374399 * 2^-32, 2 - 2^-32 and 2.
FnLiquidity == {Z, N(1073741824), Dec(<< 21, 4748, 3648 >>), Dec(<< 32, 2122, 5472 >>),
                Dec(<< 42, 9496, 7295 >>), Two32, Dec(<< 80, 737, 4399 >>),
                Dec(<< 85, 8993, 4591 >>), Dec(<< 85, 8993, 4592 >>)}
FnScaleMax == {Z, Two32, Dec(<< 85, 8993, 4592 >>)}

InitFn ==
    /\ \E m \in {0, 1} : SubnetMechanism = [n \in Netuids |-> m]
    /\ \E t \in FnReserves : SubnetTAO = [n \in Netuids |-> t]
    /\ \E a \in FnReserves : SubnetAlphaIn = [n \in Netuids |-> a]
    /\ SubnetAlphaOut = [n \in Netuids |-> N(1000000)]
    /\ SubnetVolume = [n \in Netuids |-> Z]
    /\ TotalStake = Z
    /\ SubnetMovingPrice = [n \in Netuids |-> SZero]
    /\ LiquidityScaleMax = [n \in Netuids |-> N(1)]
    /\ MinimumPoolLiquidity \in MinimumPoolLiquidityValues
    /\ TotalHotkeyAlpha = << >>
    /\ TotalHotkeyShares = << >>
    /\ Alpha = << >>
    /\ StakingHotkeys = [c \in Coldkeys |-> << >>]
    /\ LastColdkeyHotkeyStakeBlock = << >>
    /\ current_block = 1
    /\ events = << >>
    /\ NoDelegationNoJobs
    /\ prev = Store
    /\ hist = << >>
    /\ steps = 0

GetAlphaPrice(netuid) ==
    Query(Call("get_alpha_price", netuid, Z, Z, Z, Z, get_alpha_price(Store, netuid), TRUE))

SimSwapTaoForAlpha(netuid, tao) ==
    Simulated("sim_swap_tao_for_alpha", netuid, tao, sim_swap_tao_for_alpha(Store, netuid, tao))

SimSwapAlphaForTao(netuid, alpha) ==
    Simulated("sim_swap_alpha_for_tao", netuid, alpha, sim_swap_alpha_for_tao(Store, netuid, alpha))

ComputeAlphaForEma(l, liquidity_scale_max) ==
    Query(Call("compute_alpha_for_ema", 0, Z, Z, l, liquidity_scale_max,
               compute_alpha_for_ema(l, liquidity_scale_max), TRUE))

\* A second call of compute_alpha_for_ema, with the liquidity_scale_max of the
\* call before it.
ComputeAlphaForEmaAgain(l) ==
    /\ Len(hist) = 1
    /\ hist[1].op = "compute_alpha_for_ema"
    /\ hist' = << Call("compute_alpha_for_ema", 0, Z, Z, l, hist[1].lmax,
                       compute_alpha_for_ema(l, hist[1].lmax), TRUE), hist[1] >>
    /\ UNCHANGED << SubnetMechanism, SubnetTAO, SubnetAlphaIn, SubnetAlphaOut, SubnetVolume,
                    TotalStake, SubnetMovingPrice, LiquidityScaleMax, MinimumPoolLiquidity,
                    TotalHotkeyAlpha, TotalHotkeyShares, Alpha, StakingHotkeys,
                    LastColdkeyHotkeyStakeBlock, current_block, events,
                    ChildKeys, ParentKeys, TaoWeight, Keys, SubnetworkN, NetworksAdded, Owner,
                    Balances, SubtokenEnabled, TransferToggle, DefaultMinStake,
                    DefaultStakingFee, StakeJobs, AlphaDividendsPerSubnet, TotalHotkeyAlphaLastEpoch,
                    prev, steps >>

NextFn ==
    \/ \E netuid \in Netuids : GetAlphaPrice(netuid)
    \/ \E netuid \in Netuids, tao \in FnAmounts : SimSwapTaoForAlpha(netuid, tao)
    \/ \E netuid \in Netuids, alpha \in FnAmounts : SimSwapAlphaForTao(netuid, alpha)
    \/ \E l \in FnLiquidity, liquidity_scale_max \in FnScaleMax :
            ComputeAlphaForEma(l, liquidity_scale_max)
    \/ \E l \in FnLiquidity : ComputeAlphaForEmaAgain(l)
    \/ \E netuid \in Netuids, tao \in FnAmounts : hist = << >> /\ SwapTaoForAlpha(netuid, tao)
    \/ \E netuid \in Netuids, alpha \in FnAmounts : hist = << >> /\ SwapAlphaForTao(netuid, alpha)

SpecFn == InitFn /\ [][NextFn]_vars


----------------------------------------------------------------------------
(* The inheritance functions and the stake weights, each called once on a    *)
(* store with three hotkeys and child / parent edges on subnet 1.            *)

InheritHotkeys == {1, 2, 3}

\* A third of u64::MAX, the proportion of an edge that delegates a third.
ThirdOfU64 == Dec(<< 614, 8914, 6912, 3651, 7205 >>)
\* The TaoWeight of 18%: 0.18 * u64::MAX.
TaoWeightValues == {Z, Dec(<< 332, 413, 9332, 6771, 9290 >>)}
\* The alpha a hotkey may hold on subnet 1, and what each holds on the root.
InheritStakes == {Z, Dec(<< 1, 0, 0, 0 >>)}
RootStakeOf(hotkey) == IF hotkey = 1 THEN Dec(<< 30, 0, 1 >>) ELSE IF hotkey = 2 THEN N(7) ELSE Z

\* The children a hotkey may have set, as (proportion, child) pairs whose
\* proportions sum to at most u64::MAX; a and b are the two other hotkeys.
ChildrenChoices(a, b) ==
    {<< >>, << << ThirdOfU64, a >> >>, << << ThirdOfU64, a >>, << ThirdOfU64, b >> >>,
     << << U64_MAX, b >> >>}

\* The (proportion, parent) pair a child gets from the children of a parent.
EdgeTo(children, child, parent) ==
    IF \E i \in DOMAIN children : children[i][2] = child
    THEN << << children[CHOOSE i \in DOMAIN children : children[i][2] = child][1], parent >> >>
    ELSE << >>

\* The storage the inheritance functions read: TotalHotkeyAlpha on the root
\* and on subnet 1, ChildKeys on subnet 1 and ParentKeys as its mirror.
InheritStorage(stake, c1, c2, c3) ==
    /\ TotalHotkeyAlpha = [k \in InheritHotkeys \X {0, 1} |->
                              IF k[2] = 0 THEN RootStakeOf(k[1]) ELSE stake[k[1]]]
    /\ ChildKeys = [k \in InheritHotkeys \X {1} |->
                       IF k[1] = 1 THEN c1 ELSE IF k[1] = 2 THEN c2 ELSE c3]
    /\ ParentKeys = [k \in InheritHotkeys \X {1} |->
                        EdgeTo(c1, k[1], 1) \o EdgeTo(c2, k[1], 2) \o EdgeTo(c3, k[1], 3)]

\* Subnet 1 has the hotkeys 2 and 3 at the uids 0 and 1; subnet 2 has hotkey 1
\* at uid 0 and no key at uid 1.
InitInherit ==
    /\ SubnetMechanism = [n \in Netuids |-> IF n = 0 THEN 0 ELSE 1]
    /\ SubnetTAO = [n \in Netuids |-> N(1000000)]
    /\ SubnetAlphaIn = [n \in Netuids |-> IF n = 0 THEN Z ELSE N(1000000)]
    /\ SubnetAlphaOut = [n \in Netuids |-> Dec(<< 3, 0, 0, 0 >>)]
    /\ SubnetVolume = [n \in Netuids |-> Z]
    /\ TotalStake = N(3000000)
    /\ SubnetMovingPrice = [n \in Netuids |-> SZero]
    /\ LiquidityScaleMax = [n \in Netuids |-> N(1)]
    /\ MinimumPoolLiquidity = N(500000)
    /\ \E stake \in [InheritHotkeys -> InheritStakes], c1 \in ChildrenChoices(2, 3),
          c2 \in ChildrenChoices(1, 3), c3 \in ChildrenChoices(1, 2) :
            InheritStorage(stake, c1, c2, c3)
    /\ TotalHotkeyShares = << >>
    /\ Alpha = << >>
    /\ StakingHotkeys = [c \in Coldkeys |-> << >>]
    /\ LastColdkeyHotkeyStakeBlock = << >>
    /\ current_block = 1
    /\ events = << >>
    /\ TaoWeight \in TaoWeightValues
    /\ Keys = (<< 1, 0 >> :> 2) @@ (<< 1, 1 >> :> 3) @@ (<< 2, 0 >> :> 1)
    /\ SubnetworkN = [n \in Netuids |-> IF n = 0 THEN 0 ELSE 2]
    /\ NetworksAdded = Netuids
    /\ Owner = InheritHotkeys
    /\ Balances = [c \in Coldkeys |-> Z]
    /\ SubtokenEnabled = [n \in Netuids |-> TRUE]
    /\ TransferToggle = [n \in Netuids |-> TRUE]
    /\ DefaultMinStake = N(500000)
    /\ DefaultStakingFee = N(50000)
    /\ StakeJobs = << >>
    /\ AlphaDividendsPerSubnet = << >>
    /\ TotalHotkeyAlphaLastEpoch = << >>
    /\ prev = Store
    /\ hist = << >>
    /\ steps = 0

\* The record of a call that takes a hotkey.
HotkeyCall(op, hotkey, netuid, ret) ==
    [hotkey |-> hotkey] @@ Call(op, netuid, Z, Z, Z, Z, ret, TRUE)

\* The weights set_tao_weight is called with: those of the initial states
\* and the full weight, u64::MAX.
SetTaoWeights == TaoWeightValues \cup {U64_MAX}

\* set_tao_weight, called before the function that is asked for its value;
\* it returns nothing, and prev follows the storage the value is asked on.
SetTaoWeight(weight) ==
    /\ hist = << >>
    /\ SetStore(set_tao_weight(Store, weight))
    /\ prev' = set_tao_weight(Store, weight)
    /\ UNCHANGED << hist, steps >>

GetInheritedForHotkeyOnSubnet(hotkey, netuid) ==
    Query(HotkeyCall("get_inherited_for_hotkey_on_subnet", hotkey, netuid,
                     get_inherited_for_hotkey_on_subnet(Store, hotkey, netuid)))

GetTaoInheritedForHotkeyOnSubnet(hotkey, netuid) ==
    Query(HotkeyCall("get_tao_inherited_for_hotkey_on_subnet", hotkey, netuid,
                     get_tao_inherited_for_hotkey_on_subnet(Store, hotkey, netuid)))

GetStakeWeightsForHotkeyOnSubnet(hotkey, netuid) ==
    Query(HotkeyCall("get_stake_weights_for_hotkey_on_subnet", hotkey, netuid,
                     get_stake_weights_for_hotkey_on_subnet(Store, hotkey, netuid)))

GetStakeWeightsForNetwork(netuid) ==
    Query(Call("get_stake_weights_for_network", netuid, Z, Z, Z, Z,
               get_stake_weights_for_network(Store, netuid), TRUE))

NextInherit ==
    \/ \E hotkey \in InheritHotkeys, netuid \in Netuids :
            GetInheritedForHotkeyOnSubnet(hotkey, netuid)
    \/ \E hotkey \in InheritHotkeys, netuid \in Netuids :
            GetTaoInheritedForHotkeyOnSubnet(hotkey, netuid)
    \/ \E hotkey \in InheritHotkeys, netuid \in Netuids :
            GetStakeWeightsForHotkeyOnSubnet(hotkey, netuid)
    \/ \E netuid \in Netuids : GetStakeWeightsForNetwork(netuid)
    \/ \E weight \in SetTaoWeights : SetTaoWeight(weight)

SpecInherit == InitInherit /\ [][NextInherit]_vars

----------------------------------------------------------------------------
(* The three validations, each called once on a store with two hotkeys, one  *)
(* coldkey and chosen subnets, toggles, owners, balance and stake.           *)

ValidateHotkeys == {1, 2}

\* The storage settings a validation may meet: subnet 2 added or not, its
\* subtoken enabled or not, transfers on subnet 1 allowed or not, hotkey 2
\* owned or not, the coldkey's balance, and the stake of (hotkey 1, coldkey 1)
\* on the root and on subnet 1.
NetworksAddedValues == {{0, 1, 2}, {0, 1}}
SubtokenEnabledValues == {[n \in Netuids |-> TRUE], [n \in Netuids |-> n # 2]}
TransferToggleValues == {[n \in Netuids |-> TRUE], [n \in Netuids |-> n # 1]}
OwnerValues == {{1, 2}, {1}}
BalanceValues == {Z, N(1000000000)}
ValidateStakes == {Z, N(2000000)}

\* Subnet 1 holds 10^9 on each side of its pool, subnet 2 600_000 tao and
\* 10^6 alpha. The share pools: (hotkey 1, coldkey 1) alone in the pools of hotkey 1 on
\* the root and on subnet 1, one share per unit of stake; the pool of hotkey 2
\* on subnet 2 worn down to a single share bit (2^-64) for 10^12 alpha.
PoolStorage(stake) ==
    /\ TotalHotkeyAlpha = MapSet(MapSet(<< 2, 2 >> :> Dec(<< 1, 0, 0, 0 >>), << 1, 0 >>, stake),
                                 << 1, 1 >>, stake)
    /\ TotalHotkeyShares = MapSet(MapSet(<< 2, 2 >> :> N(1), << 1, 0 >>, ufix_from_int(stake, 64)),
                                  << 1, 1 >>, ufix_from_int(stake, 64))
    /\ Alpha = MapSet(MapSet(<< 2, 1, 2 >> :> N(1), << 1, 1, 0 >>, ufix_from_int(stake, 64)),
                      << 1, 1, 1 >>, ufix_from_int(stake, 64))

InitValidate ==
    /\ SubnetMechanism = [n \in Netuids |-> IF n = 0 THEN 0 ELSE 1]
    /\ SubnetTAO = [n \in Netuids |-> IF n = 2 THEN N(600000) ELSE N(1000000000)]
    /\ SubnetAlphaIn = [n \in Netuids |-> IF n = 0 THEN Z
                                          ELSE IF n = 1 THEN N(1000000000) ELSE N(1000000)]
    /\ SubnetAlphaOut = [n \in Netuids |-> Dec(<< 1, 0, 0, 0 >>)]
    /\ SubnetVolume = [n \in Netuids |-> Z]
    /\ TotalStake = Dec(<< 20, 6, 0 >>)
    /\ SubnetMovingPrice = [n \in Netuids |-> SZero]
    /\ LiquidityScaleMax = [n \in Netuids |-> N(1)]
    /\ MinimumPoolLiquidity = N(500000)
    /\ \E stake \in ValidateStakes : PoolStorage(stake)
    /\ StakingHotkeys = [c \in Coldkeys |-> << >>]
    /\ LastColdkeyHotkeyStakeBlock = << >>
    /\ current_block = 1
    /\ events = << >>
    /\ ChildKeys = << >>
    /\ ParentKeys = << >>
    /\ TaoWeight = Z
    /\ Keys = << >>
    /\ SubnetworkN = [n \in Netuids |-> 0]
    /\ NetworksAdded \in NetworksAddedValues
    /\ Owner \in OwnerValues
    /\ Balances \in [Coldkeys -> BalanceValues]
    /\ SubtokenEnabled \in SubtokenEnabledValues
    /\ TransferToggle \in TransferToggleValues
    /\ DefaultMinStake = N(500000)
    /\ DefaultStakingFee = N(50000)
    /\ StakeJobs = << >>
    /\ AlphaDividendsPerSubnet = << >>
    /\ TotalHotkeyAlphaLastEpoch = << >>
    /\ prev = Store
    /\ hist = << >>
    /\ steps = 0

\* The amounts of tao offered to validate_add_stake (around
\* DefaultMinStake + DefaultStakingFee), the amounts of alpha offered to the
\* two other validations, and the limit max_amount.
AddStakeAmounts == {N(549999), N(550000), N(550001), N(700000)}
UnstakeAmounts == {N(500000), N(500001), N(600000), N(2000000), N(3000000)}
MaxAmounts == {N(600000)}

\* The record of a validation: its arguments and the verdict r.ret.
Validation(op, coldkey, hotkey, netuid, amount, max_amount, allow_partial, r) ==
    [coldkey |-> coldkey, hotkey |-> hotkey, max_amount |-> max_amount,
     allow_partial |-> allow_partial]
        @@ Call(op, netuid, amount, Z, Z, Z, r.ret, r.ret = "Ok")

\* A validation that returned r = [st, ret], on a store nothing was called on yet.
Validated(c, r) == hist = << >> /\ Step(r.st, c)

ValidateAddStake(coldkey, hotkey, netuid, stake_to_be_added, max_amount, allow_partial) ==
    Validated(Validation("validate_add_stake", coldkey, hotkey, netuid, stake_to_be_added, max_amount,
                         allow_partial,
                         validate_add_stake(Store, coldkey, hotkey, netuid, stake_to_be_added,
                                            max_amount, allow_partial)),
              validate_add_stake(Store, coldkey, hotkey, netuid, stake_to_be_added,
                                 max_amount, allow_partial))

ValidateRemoveStake(coldkey, hotkey, netuid, alpha_unstaked, max_amount, allow_partial) ==
    Validated(Validation("validate_remove_stake", coldkey, hotkey, netuid, alpha_unstaked, max_amount,
                         allow_partial,
                         validate_remove_stake(Store, coldkey, hotkey, netuid, alpha_unstaked,
                                               max_amount, allow_partial)),
              validate_remove_stake(Store, coldkey, hotkey, netuid, alpha_unstaked,
                                    max_amount, allow_partial))

\* The record of a validate_stake_transition: netuid is the origin subnet,
\* hotkey the origin hotkey.
Transition(destination_hotkey, destination_netuid, check_transfer_toggle, c) ==
    [destination_hotkey |-> destination_hotkey, destination_netuid |-> destination_netuid,
     check_transfer_toggle |-> check_transfer_toggle] @@ c

ValidateStakeTransition(coldkey, origin_hotkey, destination_hotkey, origin_netuid, destination_netuid, alpha_amount, max_amount, maybe_allow_partial, check_transfer_toggle) ==
    Validated(Transition(destination_hotkey, destination_netuid, check_transfer_toggle,
                         Validation("validate_stake_transition", coldkey, origin_hotkey, origin_netuid,
                                    alpha_amount, max_amount, maybe_allow_partial,
                                    validate_stake_transition(
                                        Store, coldkey, coldkey, origin_hotkey,
                                        destination_hotkey, origin_netuid, destination_netuid,
                                        alpha_amount, max_amount, maybe_allow_partial,
                                        check_transfer_toggle))),
              validate_stake_transition(Store, coldkey, coldkey, origin_hotkey,
                                        destination_hotkey, origin_netuid, destination_netuid,
                                        alpha_amount, max_amount, maybe_allow_partial,
                                        check_transfer_toggle))

NextValidate ==
    \/ \E coldkey \in Coldkeys, hotkey \in ValidateHotkeys, netuid \in Netuids,
          stake_to_be_added \in AddStakeAmounts, max_amount \in MaxAmounts,
          allow_partial \in BOOLEAN :
            ValidateAddStake(coldkey, hotkey, netuid, stake_to_be_added, max_amount,
                             allow_partial)
    \/ \E coldkey \in Coldkeys, hotkey \in ValidateHotkeys, netuid \in Netuids,
          alpha_unstaked \in UnstakeAmounts, max_amount \in MaxAmounts,
          allow_partial \in BOOLEAN :
            ValidateRemoveStake(coldkey, hotkey, netuid, alpha_unstaked, max_amount,
                                allow_partial)
    \/ \E coldkey \in Coldkeys, origin_hotkey \in ValidateHotkeys,
          destination_hotkey \in ValidateHotkeys, origin_netuid \in Netuids,
          destination_netuid \in {1, 2}, alpha_amount \in UnstakeAmounts \ {N(500001)},
          max_amount \in MaxAmounts,
          maybe_allow_partial \in {None, Some(TRUE), Some(FALSE)},
          check_transfer_toggle \in BOOLEAN :
            ValidateStakeTransition(coldkey, origin_hotkey, destination_hotkey, origin_netuid,
                                    destination_netuid, alpha_amount, max_amount,
                                    maybe_allow_partial, check_transfer_toggle)

SpecValidate == InitValidate /\ [][NextValidate]_vars

----------------------------------------------------------------------------
(* The scheduler over a few blocks: jobs are queued during a block, the      *)
(* block is finalized, and the next block begins.                            *)

\* The coldkeys that queue jobs, the most jobs queued and the last block.
JobColdkeys == {1, 2}
MaxJobs == 2
MaxBlock == 2
\* The first byte of the parent hash: first bit clear or set.
FirstBytes == {127, 128}

InitJobs ==
    /\ SubnetMechanism = [n \in Netuids |-> IF n = 0 THEN 0 ELSE 1]
    /\ SubnetTAO = [n \in Netuids |-> N(1000000)]
    /\ SubnetAlphaIn = [n \in Netuids |-> IF n = 0 THEN Z ELSE N(1000000)]
    /\ SubnetAlphaOut = [n \in Netuids |-> N(1000000)]
    /\ SubnetVolume = [n \in Netuids |-> Z]
    /\ TotalStake = N(3000000)
    /\ SubnetMovingPrice = [n \in Netuids |-> SZero]
    /\ LiquidityScaleMax = [n \in Netuids |-> N(1)]
    /\ MinimumPoolLiquidity = N(500000)
    /\ TotalHotkeyAlpha = << >>
    /\ TotalHotkeyShares = << >>
    /\ Alpha = << >>
    /\ StakingHotkeys = [c \in Coldkeys |-> << >>]
    /\ LastColdkeyHotkeyStakeBlock = << >>
    /\ current_block = 1
    /\ events = << >>
    /\ NoDelegationNoJobs
    /\ prev = Store
    /\ hist = << >>
    /\ steps = 0

\* The block was finalized: do_on_finalize was the last call.
Finalized == hist # << >> /\ hist[1].op = "do_on_finalize"

\* The unchanged storage of a step of the scheduler.
JobsFrame ==
    UNCHANGED << SubnetMechanism, SubnetTAO, SubnetAlphaIn, SubnetAlphaOut, SubnetVolume,
                 TotalStake, SubnetMovingPrice, LiquidityScaleMax, MinimumPoolLiquidity,
                 TotalHotkeyAlpha, TotalHotkeyShares, Alpha, StakingHotkeys,
                 LastColdkeyHotkeyStakeBlock, ChildKeys, ParentKeys, TaoWeight, Keys,
                 SubnetworkN, NetworksAdded, Owner, Balances, SubtokenEnabled,
                 TransferToggle, DefaultMinStake, DefaultStakingFee,
                 AlphaDividendsPerSubnet, TotalHotkeyAlphaLastEpoch >>

\* A job is queued in the current block, under the next job id; steps counts
\* the jobs queued so far.
QueueJob(kind, coldkey, hotkey) ==
    /\ ~Finalized
    /\ steps < MaxJobs
    /\ StakeJobs' = (<< current_block, steps + 1 >>
                        :> [kind |-> kind, coldkey |-> coldkey, hotkey |-> hotkey, netuid |-> 1])
                    @@ StakeJobs
    /\ steps' = steps + 1
    /\ hist' = << [coldkey |-> coldkey, kind |-> kind]
                  @@ Call("queue_job", 1, Z, Z, Z, Z, Z, TRUE) >>
    /\ prev' = Store
    /\ UNCHANGED << current_block, events >>
    /\ JobsFrame

\* The block is finalized: do_on_finalize with the first byte of the parent
\* hash, the results the replays return and the order in which the storage
\* yields the keys of the drained block.
DoOnFinalize(first_byte, results) ==
    /\ ~Finalized
    /\ \E order \in KeyOrders(Store, actual_block_with_delay(current_block)) :
         \E o \in do_on_finalize_outcomes(Store, current_block, first_byte, results, order) :
            /\ StakeJobs' = o.st.StakeJobs
            /\ events' = o.st.events
            /\ hist' = << [first_byte |-> first_byte, order |-> order,
                           results |-> [j \in {k[2] : k \in {q \in DOMAIN StakeJobs :
                                           q[1] = actual_block_with_delay(current_block)}}
                                           |-> results[j]]]
                          @@ Call("do_on_finalize", 0, Z, Z, Z, Z, o.ret, TRUE) >>
    /\ prev' = Store
    /\ UNCHANGED << current_block, steps >>
    /\ JobsFrame

\* The next block begins.
NextBlock ==
    /\ Finalized
    /\ current_block < MaxBlock
    /\ current_block' = current_block + 1
    /\ hist' = << Call("next_block", 0, Z, Z, Z, Z, Z, TRUE) >>
    /\ prev' = Store
    /\ UNCHANGED << StakeJobs, events, steps >>
    /\ JobsFrame

NextJobs ==
    \/ \E kind \in JobKinds, coldkey \in JobColdkeys, hotkey \in Hotkeys :
            QueueJob(kind, coldkey, hotkey)
    \/ \E first_byte \in FirstBytes, results \in [1..MaxJobs -> BOOLEAN] :
            DoOnFinalize(first_byte, results)
    \/ NextBlock

SpecJobs == InitJobs /\ [][NextJobs]_vars

----------------------------------------------------------------------------
(* The share pool of hotkey 1 on subnet 1 under purchases and sales of two   *)
(* coldkeys, movements of the hotkey's stake as a whole, and unstaking.      *)

PoolColdkeys == {1, 2}
PoolAmounts == {N(250), N(500)}
HotkeyAmounts == {N(3)}
UnstakeAlphas == {N(500)}
\* The longest run of calls on the pool explored.
MaxPoolSteps == 3

\* The pool of hotkey 1 on subnet 1 with 600 shares of coldkey 1 and 400 of
\* coldkey 2 bought one share per unit, and emissions on top.
StakedPool(emitted) ==
    [TotalHotkeyAlpha |-> (<< 1, 1 >> :> N(1000 + emitted)),
     TotalHotkeyShares |-> (<< 1, 1 >> :> ufix_from_int(N(1000), 64)),
     Alpha |-> (<< 1, 1, 1 >> :> ufix_from_int(N(600), 64))
               @@ (<< 1, 2, 1 >> :> ufix_from_int(N(400), 64))]

\* The pools at the start: empty, staked, and staked with emissions of 50.
PoolStorages ==
    {[TotalHotkeyAlpha |-> << >>, TotalHotkeyShares |-> << >>, Alpha |-> << >>],
     StakedPool(0), StakedPool(50)}

\* The stake of a coldkey in the pool of a store.
PoolValue(S, coldkey) == get_stake_for_hotkey_and_coldkey_on_subnet(S, 1, coldkey, 1)

\* The record of a call on the pool: the call, its coldkey (0 for a call on
\* the hotkey's stake as a whole), the alpha it moved, and the tally of the
\* run: the alpha each coldkey added and removed so far, who called, and the
\* value of each coldkey at the start.
PoolCall(op, coldkey, amount, fee, ret, alpha, tally) ==
    [coldkey |-> coldkey, alpha |-> alpha,
     added |-> tally.added, removed |-> tally.removed,
     callers |-> tally.callers \cup (IF op = "start" THEN {} ELSE {coldkey}),
     initial |-> tally.initial]
    @@ Call(op, 1, amount, fee, Z, Z, ret, TRUE)

Tally == hist[1]

\* The tally with an amount added, or removed, by a coldkey.
TallyAdded(coldkey, amount) == [Tally EXCEPT !.added[coldkey] = NAdd(@, amount)]
TallyRemoved(coldkey, amount) == [Tally EXCEPT !.removed[coldkey] = NAdd(@, amount)]

InitPool ==
    /\ SubnetMechanism = [n \in Netuids |-> IF n = 0 THEN 0 ELSE 1]
    /\ SubnetTAO = [n \in Netuids |-> N(1000000)]
    /\ SubnetAlphaIn = [n \in Netuids |-> IF n = 0 THEN Z ELSE N(1000000)]
    /\ SubnetAlphaOut = [n \in Netuids |-> N(1000000)]
    /\ SubnetVolume = [n \in Netuids |-> Z]
    /\ TotalStake = N(3000000)
    /\ SubnetMovingPrice = [n \in Netuids |-> SZero]
    /\ LiquidityScaleMax = [n \in Netuids |-> N(1)]
    /\ MinimumPoolLiquidity = N(500000)
    /\ \E pool \in PoolStorages :
            /\ TotalHotkeyAlpha = pool.TotalHotkeyAlpha
            /\ TotalHotkeyShares = pool.TotalHotkeyShares
            /\ Alpha = pool.Alpha
    /\ StakingHotkeys = [c \in Coldkeys |-> << >>]
    /\ LastColdkeyHotkeyStakeBlock = << >>
    /\ current_block = 1
    /\ events = << >>
    /\ NoDelegationNoJobs
    /\ prev = Store
    /\ hist = << PoolCall("start", 0, Z, Z, Z, Z,
                          [added |-> [c \in PoolColdkeys |-> Z],
                           removed |-> [c \in PoolColdkeys |-> Z],
                           callers |-> {},
                           initial |-> [c \in PoolColdkeys |-> PoolValue(Store, c)]]) >>
    /\ steps = 0

\* A call on the pool: the store after it, its record, and the store it
\* started from.
PoolStep(S, c) ==
    /\ steps < MaxPoolSteps
    /\ SetStore(S)
    /\ prev' = Store
    /\ hist' = << c >>
    /\ steps' = steps + 1

\* A purchase or a sale that returned r = [st, ret].
Increased(coldkey, amount, r) ==
    PoolStep(r.st, PoolCall("increase_stake", coldkey, amount, Z, r.ret, r.ret,
                            TallyAdded(coldkey, r.ret)))
Decreased(coldkey, amount, r) ==
    PoolStep(r.st, PoolCall(Outcome("decrease_stake", r), coldkey, amount, Z, r.ret, r.ret,
                            TallyRemoved(coldkey, r.ret)))

\* unstake_from_subnet that returned r, given the alpha its step 1 removed.
Unstaked(coldkey, alpha, fee, r, dec) ==
    PoolStep(r.st, PoolCall(Outcome("unstake_from_subnet", r), coldkey, alpha, fee, r.ret,
                            IF r.panic THEN Z ELSE dec.ret,
                            TallyRemoved(coldkey, IF r.panic THEN Z ELSE dec.ret)))

IncreaseStakeForHotkeyAndColdkeyOnSubnet(coldkey, amount) ==
    Increased(coldkey, amount,
              increase_stake_for_hotkey_and_coldkey_on_subnet(Store, 1, coldkey, 1, amount))

DecreaseStakeForHotkeyAndColdkeyOnSubnet(coldkey, amount) ==
    /\ steps < MaxPoolSteps
    /\ \E o \in decrease_stake_for_hotkey_and_coldkey_on_subnet_outcomes(Store, 1, coldkey, 1,
                                                                      amount) :
        Decreased(coldkey, amount, o)

IncreaseStakeForHotkeyOnSubnet(amount) ==
    PoolStep(increase_stake_for_hotkey_on_subnet(Store, 1, 1, amount),
             PoolCall("increase_stake_for_hotkey", 0, amount, Z, Z, amount, Tally))

DecreaseStakeForHotkeyOnSubnet(amount) ==
    /\ steps < MaxPoolSteps
    /\ \E o \in decrease_stake_for_hotkey_on_subnet_outcomes(Store, 1, 1, amount) :
        PoolStep(o.st, PoolCall(Outcome("decrease_stake_for_hotkey", o), 0, amount, Z, Z,
                                IF o.panic THEN Z ELSE amount, Tally))

UnstakeFromSubnet(coldkey, alpha, fee) ==
    /\ steps < MaxPoolSteps
    /\ \E o \in unstake_from_subnet_outcomes(Store, 1, coldkey, 1, alpha, fee) :
        Unstaked(coldkey, alpha, fee, o,
                 decrease_stake_for_hotkey_and_coldkey_on_subnet(Store, 1, coldkey, 1, alpha))

NextPool ==
    \/ \E coldkey \in PoolColdkeys, amount \in PoolAmounts :
            IncreaseStakeForHotkeyAndColdkeyOnSubnet(coldkey, amount)
    \/ \E coldkey \in PoolColdkeys, amount \in PoolAmounts :
            DecreaseStakeForHotkeyAndColdkeyOnSubnet(coldkey, amount)
    \/ \E amount \in HotkeyAmounts : IncreaseStakeForHotkeyOnSubnet(amount)
    \/ \E amount \in HotkeyAmounts : DecreaseStakeForHotkeyOnSubnet(amount)
    \/ \E coldkey \in PoolColdkeys, alpha \in UnstakeAlphas :
            UnstakeFromSubnet(coldkey, alpha, N(100))

SpecPool == InitPool /\ [][NextPool]_vars

----------------------------------------------------------------------------
(* Writes to the storage of the pool through its data operations              *)

\* The values written: U64F64 bits of zero, of one half, of 1 and of 250.
WrittenValues == {Z, Two63, ufix_from_int(N(1), 64), ufix_from_int(N(250), 64)}
\* The longest run of writes explored.
MaxWriteSteps == 2

\* A write to the pool: the store after it and its record, with the value
\* written as the amount.
Written(op, key, value, S) ==
    /\ steps < MaxWriteSteps
    /\ PoolStep(S, PoolCall(op, key, value, Z, Z, Z, Tally))

SetSharedValue(value) == Written("set_shared_value", 0, value, set_shared_value(Store, 1, 1, value))
SetShare(key, share) == Written("set_share", key, share, set_share(Store, 1, 1, key, share))
SetDenominator(update) == Written("set_denominator", 0, update, set_denominator(Store, 1, 1, update))

NextWrites ==
    \/ \E value \in WrittenValues : SetSharedValue(value)
    \/ \E key \in PoolColdkeys, share \in WrittenValues : SetShare(key, share)
    \/ \E update \in WrittenValues : SetDenominator(update)

SpecWrites == InitPool /\ [][NextWrites]_vars

----------------------------------------------------------------------------
(* Increases and decreases of stake by amounts from the whole range of u64,  *)
(* on the pools above.                                                       *)

\* The amounts of alpha added and removed: a small one, i64::MAX, the first
\* one above it and u64::MAX.
IncreaseAmounts == {N(1000), NSub(Two63, N(1)), Two63, U64_MAX}
\* The longest run of calls explored.
MaxIncreaseSteps == 2

NextIncrease ==
    \/ \E amount \in IncreaseAmounts :
            steps < MaxIncreaseSteps /\ IncreaseStakeForHotkeyOnSubnet(amount)
    \/ \E coldkey \in PoolColdkeys, amount \in IncreaseAmounts :
            steps < MaxIncreaseSteps /\ IncreaseStakeForHotkeyAndColdkeyOnSubnet(coldkey, amount)
    \/ \E amount \in IncreaseAmounts :
            steps < MaxIncreaseSteps /\ DecreaseStakeForHotkeyOnSubnet(amount)
    \/ \E coldkey \in PoolColdkeys, amount \in IncreaseAmounts :
            steps < MaxIncreaseSteps /\ DecreaseStakeForHotkeyAndColdkeyOnSubnet(coldkey, amount)

SpecIncrease == InitPool /\ [][NextIncrease]_vars

----------------------------------------------------------------------------
(* The staking fee on stores with and without dividends of the last epoch *)

\* AlphaDividendsPerSubnet and TotalHotkeyAlphaLastEpoch of hotkey 1 on every
\* subnet: nothing, or the value.
DividendValues == {Z, N(1000000)}
LastEpochValues == {Z, Dec(<< 10, 0, 0 >>)}
\* The Dynamic subnets besides subnet 1.
MechanismValues == {[n \in Netuids |-> IF n = 0 THEN 0 ELSE 1],
                    [n \in Netuids |-> IF n = 1 THEN 1 ELSE 0]}
\* The fees configured.
StakingFeeValues == {N(50000), N(600000)}

\* A storage map of hotkey 1 with one value on every subnet, and without
\* entries for the value 0.
OnEverySubnet(keys, v) == IF v = Z THEN << >> ELSE [k \in keys |-> v]

InitFee ==
    /\ SubnetMechanism \in MechanismValues
    /\ SubnetTAO = [n \in Netuids |-> Dec(<< 10, 0, 0, 0 >>)]
    /\ SubnetAlphaIn = [n \in Netuids |-> IF n = 0 THEN Z ELSE Dec(<< 10, 0, 0, 0 >>)]
    /\ SubnetAlphaOut = [n \in Netuids |-> Dec(<< 10, 0, 0, 0 >>)]
    /\ SubnetVolume = [n \in Netuids |-> Z]
    /\ TotalStake = Dec(<< 30, 0, 0, 0 >>)
    /\ SubnetMovingPrice = [n \in Netuids |-> SZero]
    /\ LiquidityScaleMax = [n \in Netuids |-> N(1)]
    /\ MinimumPoolLiquidity = N(500000)
    /\ TotalHotkeyAlpha = << >>
    /\ TotalHotkeyShares = << >>
    /\ Alpha = << >>
    /\ StakingHotkeys = [c \in Coldkeys |-> << >>]
    /\ LastColdkeyHotkeyStakeBlock = << >>
    /\ current_block = 1
    /\ events = << >>
    /\ ChildKeys = << >>
    /\ ParentKeys = << >>
    /\ TaoWeight = Z
    /\ Keys = << >>
    /\ SubnetworkN = [n \in Netuids |-> 0]
    /\ NetworksAdded = Netuids
    /\ Owner = Hotkeys
    /\ Balances = [c \in Coldkeys |-> Z]
    /\ SubtokenEnabled = [n \in Netuids |-> TRUE]
    /\ TransferToggle = [n \in Netuids |-> TRUE]
    /\ DefaultMinStake = N(500000)
    /\ DefaultStakingFee \in StakingFeeValues
    /\ StakeJobs = << >>
    /\ \E v \in DividendValues :
            AlphaDividendsPerSubnet = OnEverySubnet({<< n, 1 >> : n \in Netuids}, v)
    /\ \E v \in LastEpochValues :
            TotalHotkeyAlphaLastEpoch = OnEverySubnet({<< 1, n >> : n \in Netuids}, v)
    /\ prev = Store
    /\ hist = << >>
    /\ steps = 0

\* The hotkey and subnet a fee is asked for: none, or hotkey 1 on a subnet.
FeeEnds == {None} \cup {Some(<< 1, n >>) : n \in Netuids}
\* The alpha estimates (U96F32): 0, a million, ten thousand million and a
\* half, and 10^12.
AlphaEstimates == {Z, ufix_from_int(N(1000000), 32),
                   NAdd(ufix_from_int(Dec(<< 100, 0, 0 >>), 32), Dec(<< 21, 4748, 3648 >>)),
                   ufix_from_int(Dec(<< 1, 0, 0, 0 >>), 32)}

CalculateStakingFee(origin, destination, alpha_estimate) ==
    Query([origin |-> origin, destination |-> destination]
          @@ Call("calculate_staking_fee", 0, alpha_estimate, Z, Z, Z,
                  calculate_staking_fee(Store, origin, destination, alpha_estimate), TRUE))

NextFee ==
    \E origin \in FeeEnds, destination \in FeeEnds, alpha_estimate \in AlphaEstimates :
        CalculateStakingFee(origin, destination, alpha_estimate)

SpecFee == InitFee /\ [][NextFee]_vars
----------------------------------------------------------------------------
(* Properties.  They are stated in exact arithmetic on the storage before   *)
(* (prev) and after a call and on the record of the call (hist[1]), not in  *)
(* the fixed-point operations of the code.                                  *)

\* |a - b|.
NDist(a, b) == IF NLt(a, b) THEN NSub(b, a) ELSE NSub(a, b)
\* ceil(a / b), for b # 0.
CeilDiv(a, b) == NDiv(NAdd(a, NSub(b, N(1))), b)
RECURSIVE NPow(_, _)
\* a^k.
NPow(a, k) == IF k = 0 THEN N(1) ELSE NMul(a, NPow(a, k - 1))

\* The last call was op.
After(op) == hist # << >> /\ hist[1].op = op
\* The last call was a swap the simulation allowed, on a Dynamic subnet.
AfterDynamicSwap(op) ==
    After(op) /\ hist[1].ok /\ prev.SubnetMechanism[hist[1].netuid] = 1
\* SubnetTAO * SubnetAlphaIn of a subnet in a store.
Product(S, netuid) == NMul(S.SubnetTAO[netuid], S.SubnetAlphaIn[netuid])

\* C1: on a Dynamic subnet, after a successful swap_tao_for_alpha or
\* swap_alpha_for_tao the product SubnetTAO * SubnetAlphaIn differs from the
\* product before the swap by less than the input-side reserve after the swap.
C1_ProductKept ==
    /\ AfterDynamicSwap("swap_tao_for_alpha") =>
           NLt(NDist(Product(Store, hist[1].netuid), Product(prev, hist[1].netuid)),
               SubnetTAO[hist[1].netuid])
    /\ AfterDynamicSwap("swap_alpha_for_tao") =>
           NLt(NDist(Product(Store, hist[1].netuid), Product(prev, hist[1].netuid)),
               SubnetAlphaIn[hist[1].netuid])

\* A successful swap of tao on a Dynamic subnet paid alpha out and left a
\* product that is not the product before it.
C1_Witness ==
    /\ AfterDynamicSwap("swap_tao_for_alpha")
    /\ hist[1].ret # Z
    /\ Product(Store, hist[1].netuid) # Product(prev, hist[1].netuid)

\* C2: on a Dynamic subnet, after a successful swap_tao_for_alpha or
\* swap_alpha_for_tao neither SubnetTAO nor SubnetAlphaIn is below the
\* minimum-pool-liquidity floor.
C2_ReservesNotBelowFloor ==
    (AfterDynamicSwap("swap_tao_for_alpha") \/ AfterDynamicSwap("swap_alpha_for_tao")) =>
        /\ NLe(MinimumPoolLiquidity, SubnetTAO[hist[1].netuid])
        /\ NLe(MinimumPoolLiquidity, SubnetAlphaIn[hist[1].netuid])

\* A successful swap took a Dynamic subnet's alpha reserve down to less than
\* twice the floor.
C2_Witness ==
    /\ AfterDynamicSwap("swap_tao_for_alpha")
    /\ NLt(SubnetAlphaIn[hist[1].netuid], prev.SubnetAlphaIn[hist[1].netuid])
    /\ NLt(SubnetAlphaIn[hist[1].netuid], NAdd(MinimumPoolLiquidity, MinimumPoolLiquidity))

\* The last call was rejected: the simulation reported None, the swap returned
\* 0 and the reserves, the issuance, the total stake and the volume are as
\* they were.
Rejected ==
    /\ ~hist[1].ok
    /\ hist[1].ret = Z
    /\ SubnetTAO = prev.SubnetTAO
    /\ SubnetAlphaIn = prev.SubnetAlphaIn
    /\ SubnetAlphaOut = prev.SubnetAlphaOut
    /\ TotalStake = prev.TotalStake
    /\ SubnetVolume = prev.SubnetVolume

\* On a Dynamic subnet, k / (reserve_in + amount) is below the floor, for the
\* reserves of the store S.
BelowFloor(S, netuid, reserve_in, amount) ==
    /\ S.SubnetMechanism[netuid] = 1
    /\ NLt(Product(S, netuid), NMul(S.MinimumPoolLiquidity, NAdd(reserve_in, amount)))

\* C3: on a Dynamic subnet, when k / (input reserve + input amount) is below
\* the floor, sim_swap_* returns None, swap_* returns 0 and SubnetTAO,
\* SubnetAlphaIn, SubnetAlphaOut, TotalStake and SubnetVolume are unchanged.
C3_RejectedSwapChangesNothing ==
    /\ (/\ After("swap_tao_for_alpha")
        /\ BelowFloor(prev, hist[1].netuid, prev.SubnetTAO[hist[1].netuid], hist[1].amount))
           => Rejected
    /\ (/\ After("swap_alpha_for_tao")
        /\ BelowFloor(prev, hist[1].netuid, prev.SubnetAlphaIn[hist[1].netuid], hist[1].amount))
           => Rejected

\* A swap of alpha was called with an amount that takes the tao reserve below
\* the floor.
C3_Witness ==
    /\ After("swap_alpha_for_tao")
    /\ hist[1].amount # Z
    /\ BelowFloor(prev, hist[1].netuid, prev.SubnetAlphaIn[hist[1].netuid], hist[1].amount)

\* C4: on a Dynamic subnet the alpha a successful swap of x tao pays out is
\* floor(SubnetAlphaIn - k / (SubnetTAO + x)) with k = SubnetTAO * SubnetAlphaIn;
\* and with SubnetTAO = SubnetAlphaIn = 1_000_000, a floor not above the new
\* alpha reserve and fee 0, stake_into_subnet of 1_000 tao yields 999 alpha and
\* leaves SubnetTAO = 1_001_000 and SubnetAlphaIn = 999_001.
C4_ForwardSwapOutput ==
    /\ AfterDynamicSwap("swap_tao_for_alpha") =>
           hist[1].ret =
               NSub(prev.SubnetAlphaIn[hist[1].netuid],
                    CeilDiv(Product(prev, hist[1].netuid),
                            NAdd(prev.SubnetTAO[hist[1].netuid], hist[1].amount)))
    /\ (/\ AfterDynamicSwap("stake_into_subnet")
        /\ prev.SubnetTAO[hist[1].netuid] = N(1000000)
        /\ prev.SubnetAlphaIn[hist[1].netuid] = N(1000000)
        /\ hist[1].amount = N(1000)
        /\ hist[1].fee = Z)
           => /\ hist[1].ret = N(999)
              /\ SubnetTAO[hist[1].netuid] = N(1001000)
              /\ SubnetAlphaIn[hist[1].netuid] = N(999001)

\* C5: on a Dynamic subnet, when swap_tao_for_alpha of x tao succeeds and
\* returns a alpha and swap_alpha_for_tao of a alpha is the next call, the tao
\* returned is at most x; it is 999 when 1_000 tao were swapped into reserves
\* of 1_000_000 each.
C5_RoundTripReturnsNoMore ==
    (/\ Len(hist) = 2
     /\ hist[2].op = "swap_tao_for_alpha"
     /\ hist[2].ok
     /\ hist[1].op = "swap_alpha_for_tao"
     /\ hist[1].netuid = hist[2].netuid
     /\ hist[1].amount = hist[2].ret
     /\ SubnetMechanism[hist[1].netuid] = 1)
        => /\ NLe(hist[1].ret, hist[2].amount)
           /\ (/\ hist[2].amount = N(1000)
               /\ prev.SubnetTAO[hist[1].netuid] = N(1001000)
               /\ prev.SubnetAlphaIn[hist[1].netuid] = N(999001)) => hist[1].ret = N(999)

\* C6: get_alpha_price returns exactly 1 for the root netuid and for a Stable
\* subnet, whatever the reserves; otherwise 0 when SubnetAlphaIn is 0 and
\* SubnetTAO / SubnetAlphaIn, to the last bit of U96F32, when it is not.
C6_AlphaPrice ==
    After("get_alpha_price") =>
        IF hist[1].netuid = RootNetuid \/ SubnetMechanism[hist[1].netuid] = 0
        THEN hist[1].ret = Two32
        ELSE IF SubnetAlphaIn[hist[1].netuid] = Z
        THEN hist[1].ret = Z
        ELSE /\ NLe(NMul(hist[1].ret, SubnetAlphaIn[hist[1].netuid]),
                    NMul(SubnetTAO[hist[1].netuid], Two32))
             /\ NLt(NMul(SubnetTAO[hist[1].netuid], Two32),
                    NMul(NAdd(hist[1].ret, N(1)), SubnetAlphaIn[hist[1].netuid]))

\* The price of a Dynamic subnet other than the root was asked for, and it is
\* not a whole multiple of 2^-32.
C6_Witness ==
    /\ After("get_alpha_price")
    /\ hist[1].netuid # RootNetuid
    /\ SubnetMechanism[hist[1].netuid] = 1
    /\ SubnetAlphaIn[hist[1].netuid] # Z
    /\ NMul(hist[1].ret, SubnetAlphaIn[hist[1].netuid]) # NMul(SubnetTAO[hist[1].netuid], Two32)

\* C7: on a Stable subnet sim_swap_tao_for_alpha and sim_swap_alpha_for_tao
\* return Some(input) for every input and every reserve state, and
\* swap_tao_for_alpha and swap_alpha_for_tao return the input.
C7_StablePassThrough ==
    (/\ hist # << >>
     /\ hist[1].op \in {"sim_swap_tao_for_alpha", "sim_swap_alpha_for_tao",
                        "swap_tao_for_alpha", "swap_alpha_for_tao"}
     /\ SubnetMechanism[hist[1].netuid] = 0)
        => hist[1].ok /\ hist[1].ret = hist[1].amount

\* The whole range of u64 was swapped out of a Stable subnet that holds no tao.
C7_Witness ==
    /\ After("sim_swap_alpha_for_tao")
    /\ SubnetMechanism[hist[1].netuid] = 0
    /\ SubnetTAO[hist[1].netuid] = Z
    /\ hist[1].amount = U64_MAX

\* No subnet but the one of the last call changed its reserves.
OtherSubnetsKept ==
    \A n \in Netuids \ {hist[1].netuid} :
        /\ SubnetTAO[n] = prev.SubnetTAO[n]
        /\ SubnetAlphaIn[n] = prev.SubnetAlphaIn[n]
        /\ SubnetAlphaOut[n] = prev.SubnetAlphaOut[n]
        /\ SubnetVolume[n] = prev.SubnetVolume[n]

\* C8: a successful swap_tao_for_alpha of tao returning alpha takes alpha off
\* SubnetAlphaIn, adds alpha to SubnetAlphaOut and tao to SubnetTAO, TotalStake
\* and SubnetVolume; a successful swap_alpha_for_tao of alpha returning tao
\* adds alpha to SubnetAlphaIn, takes alpha off SubnetAlphaOut and tao off
\* SubnetTAO and TotalStake and adds tao to SubnetVolume; no other subnet's
\* reserves change.
C8_SwapBookkeeping ==
    /\ (After("swap_tao_for_alpha") /\ hist[1].ok) =>
        /\ NAdd(SubnetAlphaIn[hist[1].netuid], hist[1].ret) = prev.SubnetAlphaIn[hist[1].netuid]
        /\ SubnetAlphaOut[hist[1].netuid] = NAdd(prev.SubnetAlphaOut[hist[1].netuid], hist[1].ret)
        /\ SubnetTAO[hist[1].netuid] = NAdd(prev.SubnetTAO[hist[1].netuid], hist[1].amount)
        /\ TotalStake = NAdd(prev.TotalStake, hist[1].amount)
        /\ SubnetVolume[hist[1].netuid] = NAdd(prev.SubnetVolume[hist[1].netuid], hist[1].amount)
        /\ OtherSubnetsKept
    /\ (After("swap_alpha_for_tao") /\ hist[1].ok) =>
        /\ SubnetAlphaIn[hist[1].netuid] = NAdd(prev.SubnetAlphaIn[hist[1].netuid], hist[1].amount)
        /\ NAdd(SubnetAlphaOut[hist[1].netuid], hist[1].amount) = prev.SubnetAlphaOut[hist[1].netuid]
        /\ NAdd(SubnetTAO[hist[1].netuid], hist[1].ret) = prev.SubnetTAO[hist[1].netuid]
        /\ NAdd(TotalStake, hist[1].ret) = prev.TotalStake
        /\ SubnetVolume[hist[1].netuid] = NAdd(prev.SubnetVolume[hist[1].netuid], hist[1].ret)
        /\ OtherSubnetsKept

\* C8, as amended: the counters move by the same amounts, but each one stops
\* at its end of the range: a successful swap_tao_for_alpha of tao returning
\* alpha leaves SubnetAlphaIn = max(0, SubnetAlphaIn - alpha), SubnetAlphaOut =
\* min(u64::MAX, SubnetAlphaOut + alpha), SubnetTAO and TotalStake = min(u64::MAX,
\* old + tao) and SubnetVolume = min(u128::MAX, SubnetVolume + tao); a successful
\* swap_alpha_for_tao of alpha returning tao leaves SubnetAlphaIn =
\* min(u64::MAX, SubnetAlphaIn + alpha), SubnetAlphaOut = max(0, SubnetAlphaOut -
\* alpha), SubnetTAO and TotalStake = max(0, old - tao) and SubnetVolume =
\* min(u128::MAX, SubnetVolume + tao); no other subnet's reserves change.
C8_SwapBookkeepingSaturating ==
    /\ (After("swap_tao_for_alpha") /\ hist[1].ok) =>
        /\ SubnetAlphaIn[hist[1].netuid] = NSub(prev.SubnetAlphaIn[hist[1].netuid], hist[1].ret)
        /\ SubnetAlphaOut[hist[1].netuid] =
               NMin(U64_MAX, NAdd(prev.SubnetAlphaOut[hist[1].netuid], hist[1].ret))
        /\ SubnetTAO[hist[1].netuid] =
               NMin(U64_MAX, NAdd(prev.SubnetTAO[hist[1].netuid], hist[1].amount))
        /\ TotalStake = NMin(U64_MAX, NAdd(prev.TotalStake, hist[1].amount))
        /\ SubnetVolume[hist[1].netuid] =
               NMin(U128_MAX, NAdd(prev.SubnetVolume[hist[1].netuid], hist[1].amount))
        /\ OtherSubnetsKept
    /\ (After("swap_alpha_for_tao") /\ hist[1].ok) =>
        /\ SubnetAlphaIn[hist[1].netuid] =
               NMin(U64_MAX, NAdd(prev.SubnetAlphaIn[hist[1].netuid], hist[1].amount))
        /\ SubnetAlphaOut[hist[1].netuid] = NSub(prev.SubnetAlphaOut[hist[1].netuid], hist[1].amount)
        /\ SubnetTAO[hist[1].netuid] = NSub(prev.SubnetTAO[hist[1].netuid], hist[1].ret)
        /\ TotalStake = NSub(prev.TotalStake, hist[1].ret)
        /\ SubnetVolume[hist[1].netuid] =
               NMin(U128_MAX, NAdd(prev.SubnetVolume[hist[1].netuid], hist[1].ret))
        /\ OtherSubnetsKept

\* A successful swap of tao returned more alpha than the subnet's alpha reserve
\* held, and the reserve stopped at 0.
C8_Witness ==
    /\ After("swap_tao_for_alpha")
    /\ hist[1].ok
    /\ hist[1].ret # Z
    /\ NLt(prev.SubnetAlphaIn[hist[1].netuid], hist[1].ret)
    /\ SubnetAlphaIn[hist[1].netuid] = Z
    /\ TotalStake = NAdd(prev.TotalStake, hist[1].amount)

\* The price SubnetTAO / SubnetAlphaIn of a subnet in U96F32 is at least p:
\* exactly 1 for the root and a Stable subnet, 0 without alpha reserve.
SpotAtLeast(netuid, p) ==
    IF netuid = RootNetuid \/ SubnetMechanism[netuid] = 0 THEN NLe(p, Two32)
    ELSE IF SubnetAlphaIn[netuid] = Z THEN p = Z
    ELSE NLe(NMul(p, SubnetAlphaIn[netuid]), NMul(SubnetTAO[netuid], Two32))

\* C9: after update_moving_price(netuid) the stored SubnetMovingPrice(netuid)
\* is at most get_alpha_price(netuid).
C9_MovingPriceNotAboveSpot ==
    After("update_moving_price") =>
        \/ SubnetMovingPrice[hist[1].netuid].neg
        \/ SpotAtLeast(hist[1].netuid, SubnetMovingPrice[hist[1].netuid].mag)

\* update_moving_price took the moving price of a Dynamic subnet down to the
\* spot price: one bit more is above it.
C9_Witness ==
    /\ After("update_moving_price")
    /\ SubnetMechanism[hist[1].netuid] = 1
    /\ NLt(SubnetMovingPrice[hist[1].netuid].mag, prev.SubnetMovingPrice[hist[1].netuid].mag)
    /\ ~SpotAtLeast(hist[1].netuid, NAdd(SubnetMovingPrice[hist[1].netuid].mag, N(1)))

\* x = 2 l / liquidity_scale_max - 1 is p / liquidity_scale_max for the integer
\* p = 2 l - liquidity_scale_max.
ExactP(l, liquidity_scale_max) ==
    SInt(NLt(NAdd(l, l), liquidity_scale_max), NDist(NAdd(l, l), liquidity_scale_max))

\* f(p / q) = ((7/2 x^3 - 1) x^3 + 3/2) x - 4 at x = p / q is
\* (7 p^7 - 2 q^3 p^4 + 3 q^6 p - 8 q^7) / (2 q^7): the numerator.
ExactNumerator(p, q) ==
    SAdd(SAdd(SInt(p.neg, NMul(N(7), NPow(p.mag, 7))),
              SInt(TRUE, NMul(N(2), NMul(NPow(q, 3), NPow(p.mag, 4))))),
         SAdd(SInt(p.neg, NMul(N(3), NMul(NPow(q, 6), p.mag))),
              SInt(TRUE, NMul(N(8), NPow(q, 7)))))

\* n = ceil(|f(x)|) in exact arithmetic, for l < liquidity_scale_max.
ExactN(l, liquidity_scale_max) ==
    ToNat(CeilDiv(ExactNumerator(ExactP(l, liquidity_scale_max), liquidity_scale_max).mag,
                  NMul(N(2), NPow(liquidity_scale_max, 7))))

\* C10: compute_alpha_for_ema(l, liquidity_scale_max) returns exactly 1 when
\* l >= liquidity_scale_max; otherwise 10^-n (to the last bit of U96F32) for
\* n = ceil(|f(x)|), x = 2 l / liquidity_scale_max - 1 and
\* f(x) = ((7/2 x^3 - 1) x^3 + 3/2) x - 4; the result lies in [0, 1].
C10_SmoothingFactor ==
    After("compute_alpha_for_ema") =>
        /\ NLe(hist[1].ret, Two32)
        /\ IF NLe(hist[1].lmax, hist[1].l) THEN hist[1].ret = Two32
           ELSE hist[1].ret = NDiv(Two32, NPow(N(10), ExactN(hist[1].l, hist[1].lmax)))


\* Two calls of compute_alpha_for_ema in a row with one liquidity_scale_max,
\* the first (hist[2]) with no more liquidity than the second (hist[1]), both
\* below liquidity_scale_max.
TwoLiquidities ==
    /\ Len(hist) = 2
    /\ hist[1].op = "compute_alpha_for_ema"
    /\ hist[2].op = "compute_alpha_for_ema"
    /\ hist[1].lmax = hist[2].lmax
    /\ NLe(hist[2].l, hist[1].l)
    /\ NLt(hist[1].l, hist[1].lmax)

\* C11: for a fixed liquidity_scale_max and l1 <= l2 < liquidity_scale_max,
\* compute_alpha_for_ema(l1) >= compute_alpha_for_ema(l2): the smoothing
\* factor shrinks as liquidity grows.
C11_FactorShrinksWithLiquidity ==
    TwoLiquidities => NLe(hist[1].ret, hist[2].ret)

\* C11, as amended: for a fixed liquidity_scale_max and l1 <= l2 <
\* liquidity_scale_max, compute_alpha_for_ema(l1) <= compute_alpha_for_ema(l2):
\* the smoothing factor grows with liquidity, from 10^-10 at l = 0 towards 1.
C11_FactorGrowsWithLiquidity ==
    TwoLiquidities => NLe(hist[2].ret, hist[1].ret)

\* The factor of an empty pool, 10^-10, was followed by the larger factor of a
\* pool with liquidity.
C11_Witness ==
    /\ TwoLiquidities
    /\ hist[2].l = Z
    /\ hist[2].ret = NDiv(Two32, NPow(N(10), 10))
    /\ NLt(hist[2].ret, hist[1].ret)

----------------------------------------------------------------------------
(* Inherited stake *)

\* The weight of an edge over the scale it is counted in: the proportion over
\* u64::MAX when exact, else floor(proportion * 2^32 / u64::MAX) over 2^32.
EdgeWeight(proportion, exact) ==
    IF exact THEN proportion ELSE NDiv(NMul(proportion, Two32), U64_MAX)
EdgeScale(exact) == IF exact THEN U64_MAX ELSE Two32

RECURSIVE GivenAway(_, _, _, _)
\* Sum over the child edges from the i-th on of weight * raw.
GivenAway(edges, i, raw, exact) ==
    IF i > Len(edges) THEN Z
    ELSE NAdd(NMul(raw, EdgeWeight(edges[i][1], exact)), GivenAway(edges, i + 1, raw, exact))

RECURSIVE Received(_, _, _, _)
\* Sum over the parent edges from the i-th on of weight * parent_raw, the
\* parent's TotalHotkeyAlpha on the subnet netuid.
Received(edges, i, netuid, exact) ==
    IF i > Len(edges) THEN Z
    ELSE NAdd(NMul(MapGet(TotalHotkeyAlpha, << edges[i][2], netuid >>),
                   EdgeWeight(edges[i][1], exact)),
              Received(edges, i + 1, netuid, exact))

\* trunc(max(0, raw - given_away) + received) for the hotkey's stake on the
\* subnet stake_netuid and its edges on the subnet netuid, at most u64::MAX.
EffectiveStake(hotkey, stake_netuid, netuid, exact) ==
    NMin(U64_MAX,
         NDiv(NAdd(NSub(NMul(MapGet(TotalHotkeyAlpha, << hotkey, stake_netuid >>),
                             EdgeScale(exact)),
                        GivenAway(MapGet(ChildKeys, << hotkey, netuid >>), 1,
                                  MapGet(TotalHotkeyAlpha, << hotkey, stake_netuid >>), exact)),
                   Received(MapGet(ParentKeys, << hotkey, netuid >>), 1, stake_netuid, exact)),
              EdgeScale(exact)))

\* The last call was get_inherited_for_hotkey_on_subnet on a non-root subnet.
InheritedOffRoot ==
    /\ hist # << >>
    /\ hist[1].op = "get_inherited_for_hotkey_on_subnet"
    /\ hist[1].netuid # 0

\* C12 (as stated): on a non-root subnet get_inherited_for_hotkey_on_subnet
\* returns trunc(max(0, raw - sum over the child edges of proportion / u64::MAX
\* * raw) + sum over the parent edges of proportion / u64::MAX * parent_raw),
\* computed exactly and cut down to an integer only at the end.
C12_InheritedExact ==
    InheritedOffRoot =>
        hist[1].ret = EffectiveStake(hist[1].hotkey, hist[1].netuid, hist[1].netuid, TRUE)

\* C12 (amended): the same with every proportion / u64::MAX rounded down to a
\* multiple of 2^-32 before it is multiplied, the result cut down to an
\* integer only at the end and capped at u64::MAX.
C12_InheritedFixedPoint ==
    InheritedOffRoot =>
        hist[1].ret = EffectiveStake(hist[1].hotkey, hist[1].netuid, hist[1].netuid, FALSE)

\* C12 witness: hotkey 3 holds 10^12 alpha, gives a third to a child and gets
\* all of a parent's 10^12: it inherits 1_666_666_666_744 (exact arithmetic
\* gives 1_666_666_666_666).
C12_Witness ==
    /\ InheritedOffRoot
    /\ hist[1].hotkey = 3
    /\ Len(MapGet(ChildKeys, << 3, hist[1].netuid >>)) = 1
    /\ MapGet(ParentKeys, << 3, hist[1].netuid >>) = << << U64_MAX, 1 >> >>
    /\ hist[1].ret = Dec(<< 1, 6666, 6666, 6744 >>)

\* The last call was one of the two inheritance functions.
InheritanceCalled ==
    /\ hist # << >>
    /\ hist[1].op \in {"get_inherited_for_hotkey_on_subnet",
                       "get_tao_inherited_for_hotkey_on_subnet"}

\* The subnet whose TotalHotkeyAlpha the last inheritance call started from:
\* the subnet itself, the root for the tao variant.
RawNetuid ==
    IF hist[1].op = "get_tao_inherited_for_hotkey_on_subnet" THEN 0 ELSE hist[1].netuid

RECURSIVE ProportionSum(_, _)
\* The sum of the proportions of the edges from the i-th on.
ProportionSum(edges, i) ==
    IF i > Len(edges) THEN Z ELSE NAdd(edges[i][1], ProportionSum(edges, i + 1))

\* C13: a hotkey with no parents, whose children's proportions sum to at most
\* u64::MAX, inherits at most its raw stake; a hotkey with parents and no
\* children inherits at least its raw stake; in both inheritance functions.
C13_InheritanceConservation ==
    InheritanceCalled =>
        /\ (/\ MapGet(ParentKeys, << hist[1].hotkey, hist[1].netuid >>) = << >>
            /\ NLe(ProportionSum(MapGet(ChildKeys, << hist[1].hotkey, hist[1].netuid >>), 1),
                   U64_MAX))
           => NLe(hist[1].ret, MapGet(TotalHotkeyAlpha, << hist[1].hotkey, RawNetuid >>))
        /\ (/\ MapGet(ParentKeys, << hist[1].hotkey, hist[1].netuid >>) # << >>
            /\ MapGet(ChildKeys, << hist[1].hotkey, hist[1].netuid >>) = << >>)
           => NLe(MapGet(TotalHotkeyAlpha, << hist[1].hotkey, RawNetuid >>), hist[1].ret)

\* C13 witness: the tao variant, for a hotkey with two children and no parent
\* that inherits less than its stake on the root.
C13_Witness ==
    /\ InheritanceCalled
    /\ hist[1].op = "get_tao_inherited_for_hotkey_on_subnet"
    /\ MapGet(ParentKeys, << hist[1].hotkey, hist[1].netuid >>) = << >>
    /\ Len(MapGet(ChildKeys, << hist[1].hotkey, hist[1].netuid >>)) = 2
    /\ NLt(Z, hist[1].ret)
    /\ NLt(hist[1].ret, MapGet(TotalHotkeyAlpha, << hist[1].hotkey, 0 >>))

\* C14: both inheritance functions are one level deep: the result is made of
\* the hotkey's own stake, its own edges and the TotalHotkeyAlpha of its
\* parents, whatever edges the parents have themselves, also when the hotkey
\* and its parent are each other's parent.
C14_OneLevelDeep ==
    InheritanceCalled =>
        hist[1].ret =
            IF hist[1].op = "get_inherited_for_hotkey_on_subnet" /\ hist[1].netuid = 0
            THEN MapGet(TotalHotkeyAlpha, << hist[1].hotkey, 0 >>)
            ELSE EffectiveStake(hist[1].hotkey, RawNetuid, hist[1].netuid, FALSE)

\* C14 witness: hotkeys 1 and 2 are each other's parent with a third each,
\* hotkey 1 has a second child, both hold 10^12 alpha; hotkey 2 inherits
\* 10^12 - 333_333_333_255.7 + 333_333_333_255.7 = 10^12.
C14_Witness ==
    /\ InheritanceCalled
    /\ hist[1].op = "get_inherited_for_hotkey_on_subnet"
    /\ hist[1].hotkey = 2
    /\ MapGet(ChildKeys, << 1, hist[1].netuid >>) = << << ThirdOfU64, 2 >>, << ThirdOfU64, 3 >> >>
    /\ MapGet(ChildKeys, << 2, hist[1].netuid >>) = << << ThirdOfU64, 1 >> >>
    /\ MapGet(ParentKeys, << 2, hist[1].netuid >>) = << << ThirdOfU64, 1 >> >>
    /\ MapGet(TotalHotkeyAlpha, << 1, hist[1].netuid >>) = Dec(<< 1, 0, 0, 0 >>)
    /\ hist[1].ret = Dec(<< 1, 0, 0, 0 >>)

----------------------------------------------------------------------------
(* Stake weights *)

\* The entries of the three vectors r at a uid.
EntriesAt(r, uid) == << r[1][uid + 1], r[2][uid + 1], r[3][uid + 1] >>

\* tao_weight = TaoWeight / u64::MAX as I64F64 bits: at most 1.
TaoWeightBits == NMul(NDiv(NMul(TaoWeight, Two32), U64_MAX), Two32)

\* The entries e = (total, alpha, tao) combine as total = alpha + tao * tao_weight
\* in I64F64, alpha and tao being whole numbers.
Combined(e) ==
    /\ ~e[1].neg /\ ~e[2].neg /\ ~e[3].neg
    /\ NMod(e[2].mag, Two64) = Z
    /\ NMod(e[3].mag, Two64) = Z
    /\ e[1].mag = NAdd(e[2].mag, NDiv(NMul(e[3].mag, TaoWeightBits), Two64))

\* The entries the vectors r must hold at a uid of the subnet.
EntriesRight(r, netuid, uid) ==
    IF << netuid, uid >> \in DOMAIN Keys
    THEN /\ EntriesAt(r, uid)
              = get_stake_weights_for_hotkey_on_subnet(Store, Keys[<< netuid, uid >>], netuid)
         /\ EntriesAt(r, uid)[2].mag
              = NMul(get_inherited_for_hotkey_on_subnet(Store, Keys[<< netuid, uid >>], netuid),
                     Two64)
         /\ EntriesAt(r, uid)[3].mag
              = NMul(get_tao_inherited_for_hotkey_on_subnet(Store, Keys[<< netuid, uid >>], netuid),
                     Two64)
         /\ Combined(EntriesAt(r, uid))
    ELSE EntriesAt(r, uid) = << SZero, SZero, SZero >>

\* C15: get_stake_weights_for_network returns three vectors of length n in
\* uid order; at a uid with a registered key the entries are those of
\* get_stake_weights_for_hotkey_on_subnet for that key, with
\* total = alpha_inherited + tao_inherited * tao_weight and
\* tao_weight = TaoWeight / u64::MAX in [0, 1]; at a uid without a key they are 0.
C15_NetworkStakeWeights ==
    (hist # << >> /\ hist[1].op = "get_stake_weights_for_network") =>
        /\ \A v \in 1..3 : DOMAIN hist[1].ret[v] = 1..SubnetworkN[hist[1].netuid]
        /\ NLe(TaoWeightBits, Two64)
        /\ \A uid \in 0..(SubnetworkN[hist[1].netuid] - 1) :
               EntriesRight(hist[1].ret, hist[1].netuid, uid)

\* C15 witness: subnet 2 with a tao weight of 18%: uid 0 is hotkey 1 with
\* 3_000_000_001 on the root and a total above its alpha, uid 1 has no key.
C15_Witness ==
    /\ hist # << >>
    /\ hist[1].op = "get_stake_weights_for_network"
    /\ hist[1].netuid = 2
    /\ TaoWeight # Z
    /\ << 2, 1 >> \notin DOMAIN Keys
    /\ Len(hist[1].ret[1]) = 2
    /\ hist[1].ret[3][1].mag = NMul(Dec(<< 30, 0, 1 >>), Two64)
    /\ NLt(hist[1].ret[2][1].mag, hist[1].ret[1][1].mag)
    /\ hist[1].ret[1][2] = SZero

----------------------------------------------------------------------------
(* Validation *)

\* The last call was validate_add_stake on an existing subnet.
AddStakeValidated ==
    /\ hist # << >>
    /\ hist[1].op = "validate_add_stake"
    /\ hist[1].netuid \in NetworksAdded

\* C16 (as stated): on an existing subnet validate_add_stake returns
\* AmountTooLow whenever stake_to_be_added is not strictly greater than
\* DefaultMinStake + DefaultStakingFee, equality included.
C16_AddStakeAboveMinimum ==
    (AddStakeValidated /\ ~NLt(NAdd(DefaultMinStake, DefaultStakingFee), hist[1].amount))
        => hist[1].ret = "AmountTooLow"

\* C16 (amended): on an existing subnet validate_add_stake returns
\* AmountTooLow exactly when stake_to_be_added is less than
\* DefaultMinStake + DefaultStakingFee; an amount equal to the sum passes
\* this check.
C16_AddStakeAtLeastMinimum ==
    AddStakeValidated =>
        (hist[1].ret = "AmountTooLow"
            <=> NLt(hist[1].amount, NMin(NAdd(DefaultMinStake, DefaultStakingFee), U64_MAX)))

\* C16 witness: exactly DefaultMinStake + DefaultStakingFee = 550_000 is
\* offered and the validation returns Ok.
C16_Witness ==
    /\ AddStakeValidated
    /\ hist[1].amount = NAdd(DefaultMinStake, DefaultStakingFee)
    /\ hist[1].ret = "Ok"

\* The last call was one of the three validations.
ValidationCalled ==
    /\ hist # << >>
    /\ hist[1].op \in {"validate_add_stake", "validate_remove_stake",
                       "validate_stake_transition"}

\* C17: the validations never write: whatever they return, the reserves, the
\* share pools, TotalStake, the volume and the job queue are as before.
C17_ValidationWritesNothing ==
    ValidationCalled =>
        /\ SubnetTAO = prev.SubnetTAO
        /\ SubnetAlphaIn = prev.SubnetAlphaIn
        /\ SubnetAlphaOut = prev.SubnetAlphaOut
        /\ TotalHotkeyAlpha = prev.TotalHotkeyAlpha
        /\ TotalHotkeyShares = prev.TotalHotkeyShares
        /\ Alpha = prev.Alpha
        /\ TotalStake = prev.TotalStake
        /\ SubnetVolume = prev.SubnetVolume
        /\ StakeJobs = prev.StakeJobs

\* C17 witness: validate_add_stake returned Ok after the pool precision check
\* on the pool of hotkey 1 on subnet 1, which holds stake.
C17_Witness ==
    /\ ValidationCalled
    /\ hist[1].op = "validate_add_stake"
    /\ hist[1].ret = "Ok"
    /\ hist[1].hotkey = 1
    /\ hist[1].netuid = 1
    /\ MapGet(prev.TotalHotkeyShares, << 1, 1 >>) # Z

\* The stake the pair of the last validation holds on its subnet.
PairStake ==
    get_stake_for_hotkey_and_coldkey_on_subnet(Store, hist[1].hotkey, hist[1].coldkey,
                                               hist[1].netuid)

\* The conditions of validate_remove_stake before the one on the pair's stake.
RemovableButForStake ==
    /\ hist[1].netuid \in NetworksAdded
    /\ sim_swap_alpha_for_tao(Store, hist[1].netuid, hist[1].amount).some
    /\ NLt(DefaultMinStake, sim_swap_alpha_for_tao(Store, hist[1].netuid, hist[1].amount).val)
    /\ (hist[1].allow_partial \/ NLe(hist[1].amount, hist[1].max_amount))
    /\ hist[1].hotkey \in Owner

\* C18: validate_remove_stake returns Ok only if the subnet exists, the
\* simulated tao equivalent of alpha_unstaked is above DefaultMinStake,
\* alpha_unstaked <= max_amount unless allow_partial, the hotkey exists and
\* the pair holds at least alpha_unstaked; when only the last fails it
\* returns NotEnoughStakeToWithdraw.
C18_RemoveStakeValidation ==
    (hist # << >> /\ hist[1].op = "validate_remove_stake") =>
        /\ hist[1].ret = "Ok" => (RemovableButForStake /\ NLe(hist[1].amount, PairStake))
        /\ (RemovableButForStake /\ ~NLe(hist[1].amount, PairStake))
               => hist[1].ret = "NotEnoughStakeToWithdraw"

\* C18 witness: the pair holds 2_000_000 alpha on subnet 1 and 3_000_000 are
\* to be unstaked, everything else being in order.
C18_Witness ==
    /\ hist # << >>
    /\ hist[1].op = "validate_remove_stake"
    /\ hist[1].netuid = 1
    /\ hist[1].amount = N(3000000)
    /\ PairStake = N(2000000)
    /\ RemovableButForStake
    /\ hist[1].ret = "NotEnoughStakeToWithdraw"

\* The verdict of the last validate_stake_transition had TransferToggle been
\* T and check_transfer_toggle been c.
TransitionVerdict(T, c) ==
    validate_stake_transition([Store EXCEPT !.TransferToggle = T], hist[1].coldkey,
                              hist[1].coldkey, hist[1].hotkey, hist[1].destination_hotkey,
                              hist[1].netuid, hist[1].destination_netuid, hist[1].amount,
                              hist[1].max_amount, hist[1].allow_partial, c).ret

\* C19: in validate_stake_transition, without check_transfer_toggle the
\* verdict is the same for every TransferToggle; with it, when every other
\* check passes and TransferToggle is off for the origin or the destination,
\* the verdict is TransferDisallowed; when both subnets exist and
\* SubtokenEnabled is off for either, the verdict is SubtokenDisabled.
C19_TransferToggleOptional ==
    (hist # << >> /\ hist[1].op = "validate_stake_transition") =>
        /\ ~hist[1].check_transfer_toggle =>
               \A T \in [Netuids -> BOOLEAN] : TransitionVerdict(T, FALSE) = hist[1].ret
        /\ (/\ hist[1].check_transfer_toggle
            /\ TransitionVerdict([n \in Netuids |-> TRUE], TRUE) = "Ok"
            /\ ~(TransferToggle[hist[1].netuid] /\ TransferToggle[hist[1].destination_netuid]))
               => hist[1].ret = "TransferDisallowed"
        /\ (/\ hist[1].netuid \in NetworksAdded
            /\ hist[1].destination_netuid \in NetworksAdded
            /\ ~(SubtokenEnabled[hist[1].netuid] /\ SubtokenEnabled[hist[1].destination_netuid]))
               => hist[1].ret = "SubtokenDisabled"

\* C19 witness: a transition from subnet 1, where transfers are off, that is
\* Ok without check_transfer_toggle.
C19_Witness ==
    /\ hist # << >>
    /\ hist[1].op = "validate_stake_transition"
    /\ hist[1].netuid = 1
    /\ ~TransferToggle[1]
    /\ ~hist[1].check_transfer_toggle
    /\ hist[1].ret = "Ok"

----------------------------------------------------------------------------
(* The deferred job scheduler *)

\* The keys of the jobs queued for a block in a store.
KeysOfBlock(S, block) == {k \in DOMAIN S.StakeJobs : k[1] = block}

\* The number of events deposited for the job with a key id.
EventsOfJob(id) == Cardinality({i \in DOMAIN events : events[i][4] = id})

\* C20: do_on_finalize(current_block) drains exactly the jobs keyed to
\* current_block - 1: each is removed and executed exactly once, whether its
\* replay succeeds or fails, the jobs of every other block stay as they are
\* and are not executed, and no job is ever executed a second time.
C20_DrainsPreviousBlock ==
    /\ \A id \in 1..MaxJobs : EventsOfJob(id) <= 1
    /\ Finalized =>
        /\ KeysOfBlock(Store, current_block - 1) = {}
        /\ \A k \in DOMAIN prev.StakeJobs :
               IF k[1] = current_block - 1
               THEN /\ Cardinality({i \in DOMAIN hist[1].ret : hist[1].ret[i].id = k[2]}) = 1
                    /\ EventsOfJob(k[2]) = 1
               ELSE /\ k \in DOMAIN StakeJobs
                    /\ StakeJobs[k] = prev.StakeJobs[k]
                    /\ \A i \in DOMAIN hist[1].ret : hist[1].ret[i].id # k[2]
        /\ Len(hist[1].ret) = Cardinality(KeysOfBlock(prev, current_block - 1))
        /\ Len(events) = Len(prev.events) + Len(hist[1].ret)
        /\ DOMAIN StakeJobs \subseteq DOMAIN prev.StakeJobs

\* C20 witness: block 2 is finalized with the one job of block 1, whose
\* replay fails, while a job queued in block 2 stays.
C20_Witness ==
    /\ Finalized
    /\ current_block = 2
    /\ Len(hist[1].ret) = 1
    /\ ~hist[1].results[hist[1].ret[1].id]
    /\ KeysOfBlock(prev, 1) # {}
    /\ KeysOfBlock(Store, 1) = {}
    /\ Cardinality(KeysOfBlock(Store, 2)) = 1
    /\ Len(events) = 1

\* The jobs executed by the last do_on_finalize, in the order executed.
Executed == hist[1].ret

\* The altered bit of the last do_on_finalize.
Altered == (hist[1].first_byte \div 128) % 2 = 1

\* The place of a kind in the direct sequence of buckets.
BucketRank(kind) ==
    CASE kind = "RemoveStakeLimit" -> 1
      [] kind = "RemoveStake" -> 2
      [] kind = "UnstakeAll" -> 3
      [] kind = "UnstakeAllAlpha" -> 4
      [] kind = "AddStakeLimit" -> 5
      [] kind = "AddStake" -> 6

WithdrawalKinds == {"RemoveStakeLimit", "RemoveStake", "UnstakeAll", "UnstakeAllAlpha"}
DepositKinds == {"AddStakeLimit", "AddStake"}

\* C21: with altered the first bit of the first byte of the parent hash,
\* do_on_finalize executes the buckets in the sequence RemoveStakeLimit,
\* RemoveStake, UnstakeAll, UnstakeAllAlpha, AddStakeLimit, AddStake when
\* altered is false (every withdrawal before any deposit), and in exactly the
\* reverse sequence when altered is true.
C21_BucketSequence ==
    Finalized =>
        \A i, j \in DOMAIN Executed :
            i < j =>
                IF Altered
                THEN /\ BucketRank(Executed[i].kind) >= BucketRank(Executed[j].kind)
                     /\ Executed[i].kind \in WithdrawalKinds
                            => Executed[j].kind \in WithdrawalKinds
                ELSE /\ BucketRank(Executed[i].kind) <= BucketRank(Executed[j].kind)
                     /\ Executed[i].kind \in DepositKinds
                            => Executed[j].kind \in DepositKinds

\* C21 witness: with altered set, an AddStake job queued after a
\* RemoveStakeLimit job is executed before it.
C21_Witness ==
    /\ Finalized
    /\ Altered
    /\ Len(Executed) = 2
    /\ Executed[1].kind = "AddStake"
    /\ Executed[2].kind = "RemoveStakeLimit"
    /\ Executed[1].id > Executed[2].id

\* Two jobs of one bucket executed in this order follow the coldkey order:
\* ascending, or descending.
ColdkeyOrdered(first, second, descending) ==
    IF descending THEN first.coldkey >= second.coldkey
    ELSE first.coldkey <= second.coldkey

\* C22: within each bucket do_on_finalize executes the jobs in coldkey order:
\* when altered is false the withdrawal buckets ascending and the deposit
\* buckets descending, when altered is true the withdrawal buckets descending
\* and the deposit buckets ascending.
C22_ColdkeyOrderInBucket ==
    Finalized =>
        \A i, j \in DOMAIN Executed :
            (i < j /\ Executed[i].kind = Executed[j].kind) =>
                /\ Executed[i].kind \in WithdrawalKinds
                        => ColdkeyOrdered(Executed[i], Executed[j], Altered)
                /\ Executed[i].kind \in DepositKinds
                        => ColdkeyOrdered(Executed[i], Executed[j], ~Altered)

\* C22 witness: with altered clear, two AddStake jobs queued by coldkey 1
\* and then coldkey 2 are executed coldkey 2 first.
C22_Witness ==
    /\ Finalized
    /\ ~Altered
    /\ Len(Executed) = 2
    /\ Executed[1].kind = "AddStake"
    /\ Executed[2].kind = "AddStake"
    /\ Executed[1].coldkey = 2
    /\ Executed[2].coldkey = 1
    /\ Executed[1].id > Executed[2].id

\* The jobs keyed to a block in a store, each with its key id.
JobsOfBlock(S, block) ==
    {[id |-> k[2]] @@ S.StakeJobs[k] : k \in KeysOfBlock(S, block)}

\* The place of a drained job in the order in which the storage yielded the
\* keys to the last do_on_finalize.
PlaceDrained(job) == CHOOSE i \in DOMAIN hist[1].order : hist[1].order[i][2] = job.id

\* The order of execution that the drained jobs and the altered bit fix: by
\* bucket, then by coldkey in the direction of the bucket, and jobs of one
\* kind and one coldkey in the order drained.
ExecutedBefore(a, b, altered) ==
    IF a.kind # b.kind
    THEN (IF altered THEN BucketRank(a.kind) > BucketRank(b.kind)
          ELSE BucketRank(a.kind) < BucketRank(b.kind))
    ELSE IF a.coldkey # b.coldkey
    THEN (IF (a.kind \in DepositKinds) # altered THEN a.coldkey > b.coldkey
          ELSE a.coldkey < b.coldkey)
    ELSE PlaceDrained(a) < PlaceDrained(b)

\* The replay results that agree with those of the last do_on_finalize on
\* the jobs it drained.
SameResults == {r \in [1..MaxJobs -> BOOLEAN] : \A id \in DOMAIN hist[1].results :
                                                    r[id] = hist[1].results[id]}

\* The runs do_on_finalize may make from the state the last one started
\* from (the same storage, so the same jobs drained in the same order), with
\* the same parent hash and the same replay results.
RunsFromSameState ==
    UNION {do_on_finalize_outcomes(prev, current_block, hist[1].first_byte, r, hist[1].order) :
              r \in SameResults}

FailedEvents == {"FailedToRemoveAggregatedLimitedStake", "FailedToRemoveAggregatedStake",
                 "AggregatedUnstakeAllFailed", "AggregatedUnstakeAllAlphaFailed",
                 "FailedToAddAggregatedLimitedStake", "FailedToAddAggregatedStake"}

\* The event deposited by the last do_on_finalize for the i-th job executed.
EventOfExecuted(i) == events[Len(prev.events) + i]

NoZeroEntry(m) == \A k \in DOMAIN m : m[k] # Z

\* C25 as claimed: no zero-valued share-pool entry persists: after any
\* sequence of writes by set_shared_value, set_share and set_denominator,
\* TotalHotkeyAlpha, TotalHotkeyShares and Alpha hold no entry whose value is
\* zero, and a write of zero has removed the entry.
C25_NoZeroEntries ==
    /\ NoZeroEntry(TotalHotkeyAlpha)
    /\ NoZeroEntry(TotalHotkeyShares)
    /\ NoZeroEntry(Alpha)
    /\ (Tally.op = "set_shared_value" /\ Tally.amount = Z) => << 1, 1 >> \notin DOMAIN TotalHotkeyAlpha
    /\ (Tally.op = "set_denominator" /\ Tally.amount = Z) => << 1, 1 >> \notin DOMAIN TotalHotkeyShares
    /\ (Tally.op = "set_share" /\ Tally.amount = Z)
            => << 1, Tally.coldkey, 1 >> \notin DOMAIN Alpha

\* The last call was a purchase or a sale of a coldkey.
OwnerCalled == Tally.op \in {"increase_stake", "decrease_stake", "unstake_from_subnet"}

\* The total value of the pool in a store.
PoolTotal(S) == get_stake_for_hotkey_on_subnet(S, 1, 1)

\* C26 as claimed: an add or a remove by one coldkey never changes the value
\* of another coldkey.
C26_OthersNeverChanged ==
    OwnerCalled =>
        \A other \in PoolColdkeys \ {Tally.coldkey} :
            PoolValue(Store, other) = PoolValue(prev, other)

\* Only coldkey 1 made purchases and sales, and nothing else was called.
OnlyFirstColdkeyCalled == Tally.callers = {1}

\* C27: share-pool round trip. When a single coldkey is the only one that
\* touched the pool, and what it added in all equals what it removed in all,
\* its value is within 1 unit of its value at the start.
C27_RoundTrip ==
    (OnlyFirstColdkeyCalled /\ Tally.added[1] = Tally.removed[1]) =>
        NLe(NDist(PoolValue(Store, 1), Tally.initial[1]), N(1))

\* C27 witness: on the pool with emissions, where a unit of value is not a
\* whole share, coldkey 1 added 250 twice and then removed 500.
C27_Witness ==
    /\ OnlyFirstColdkeyCalled
    /\ steps = 3
    /\ Tally.op = "decrease_stake"
    /\ Tally.added[1] = N(500)
    /\ Tally.removed[1] = N(500)
    /\ PoolTotal(Store) = N(1050)
    /\ NLe(NDist(PoolValue(Store, 1), Tally.initial[1]), N(1))

\* The value of the calling coldkey before the last call did not cover the
\* amount: the coldkey had no share entry, or a value below the amount.
NotCovered ==
    \/ ~try_get_share(prev, 1, 1, Tally.coldkey).some
    \/ NLt(PoolValue(prev, Tally.coldkey), Tally.amount)

\* The share pool is as it was before the last call.
PoolUnchanged ==
    /\ Alpha = prev.Alpha
    /\ TotalHotkeyShares = prev.TotalHotkeyShares
    /\ TotalHotkeyAlpha = prev.TotalHotkeyAlpha

\* The reserves and totals of the subnets are as they were before the last
\* call.
ReservesUnchanged ==
    /\ SubnetTAO = prev.SubnetTAO
    /\ SubnetAlphaIn = prev.SubnetAlphaIn
    /\ SubnetAlphaOut = prev.SubnetAlphaOut
    /\ TotalStake = prev.TotalStake
    /\ SubnetVolume = prev.SubnetVolume

\* C28: decrease_stake_for_hotkey_and_coldkey_on_subnet returns 0 and
\* leaves the coldkey's share, the total shares and the total value as they
\* were whenever the coldkey has no share entry or its value is less than
\* the amount; unstake_from_subnet then swaps 0 alpha and returns 0 tao.
C28_DecreaseNotCovered ==
    /\ (Tally.op = "decrease_stake" /\ NotCovered) =>
            /\ Tally.ret = Z
            /\ PoolUnchanged
    /\ (Tally.op = "unstake_from_subnet" /\ NotCovered) =>
            /\ Tally.alpha = Z
            /\ Tally.ret = Z
            /\ PoolUnchanged
            /\ ReservesUnchanged
            /\ events = Append(prev.events, << "StakeRemoved", Tally.coldkey, 1, Z, Z, 1, Z >>)

\* C28 witness: coldkey 2 holds less than 500 in a pool with stake and
\* unstakes 500: nothing is swapped and 0 tao is returned.
C28_Witness ==
    /\ Tally.op = "unstake_from_subnet"
    /\ Tally.coldkey = 2
    /\ Tally.amount = N(500)
    /\ try_get_share(prev, 1, 1, 2).some
    /\ PoolValue(prev, 2) # Z
    /\ NLt(PoolValue(prev, 2), N(500))
    /\ Tally.ret = Z
    /\ PoolValue(Store, 2) = PoolValue(prev, 2)

\* The last call was calculate_staking_fee for a removal from a Dynamic
\* subnet other than the root on which the hotkey held no alpha in the last
\* epoch.
RemovalWithoutLastEpoch ==
    /\ hist # << >>
    /\ hist[1].op = "calculate_staking_fee"
    /\ hist[1].origin.some
    /\ ~hist[1].destination.some
    /\ hist[1].origin.val[2] # RootNetuid
    /\ SubnetMechanism[hist[1].origin.val[2]] = 1
    /\ MapGet(TotalHotkeyAlphaLastEpoch, hist[1].origin.val) = Z

\* The tao the alpha estimate of the last call would swap for on the origin
\* subnet, 0 if the swap is refused.
TaoEstimate ==
    IF sim_swap_alpha_for_tao(Store, hist[1].origin.val[2],
                              NDiv(hist[1].amount, Two32)).some
    THEN sim_swap_alpha_for_tao(Store, hist[1].origin.val[2],
                                NDiv(hist[1].amount, Two32)).val
    ELSE Z

\* 0.005% of an amount of tao, in the U96F32 arithmetic of the code:
\* floor(tao * 214748 / 2^32).
AprShare(tao) == NDiv(NMul(tao, N(214748)), Two32)

\* C29 as claimed: without alpha of the last epoch the fee of a removal from
\* a Dynamic subnet is the flat DefaultStakingFee for every alpha estimate.
C29_FlatFeeWithoutLastEpoch ==
    RemovalWithoutLastEpoch => hist[1].ret = DefaultStakingFee

\* C29: without alpha of the last epoch the division is guarded (the
\* dividend term is 0) and the fee of a removal from a Dynamic subnet is the
\* larger of DefaultStakingFee and 0.005% of the tao estimate: the flat fee
\* exactly when that share does not exceed it.
C29_FeeWithoutLastEpoch ==
    RemovalWithoutLastEpoch =>
        /\ hist[1].ret = NMax(DefaultStakingFee, AprShare(TaoEstimate))
        /\ (hist[1].ret = DefaultStakingFee) <=> NLe(AprShare(TaoEstimate), DefaultStakingFee)

\* C29 witness: with dividends but no alpha of the last epoch and a flat fee
\* of 50_000, the fee of removing 10^12 alpha from subnet 1 is above the
\* flat fee.
C29_Witness ==
    /\ RemovalWithoutLastEpoch
    /\ DefaultStakingFee = N(50000)
    /\ AlphaDividendsPerSubnet # << >>
    /\ hist[1].amount = ufix_from_int(Dec(<< 1, 0, 0, 0 >>), 32)
    /\ NLt(DefaultStakingFee, hist[1].ret)
    /\ hist[1].ret = AprShare(TaoEstimate)

\* The checks of validate_add_stake that fail for the last call, by their
\* place in the order of the claim: 1 the subnet, 2 the amount, 3 the
\* slippage, 4 the balance, 5 the hotkey, 6 the swap simulation, 7 the
\* precision probe (on the alpha the simulation promises).
FailingAddStakeChecks ==
    {i \in 1..7 :
        \/ i = 1 /\ hist[1].netuid \notin NetworksAdded
        \/ i = 2 /\ NLt(hist[1].amount, NAdd(DefaultMinStake, DefaultStakingFee))
        \/ i = 3 /\ ~hist[1].allow_partial /\ NLt(hist[1].max_amount, hist[1].amount)
        \/ i = 4 /\ NLt(Balances[hist[1].coldkey], hist[1].amount)
        \/ i = 5 /\ hist[1].hotkey \notin Owner
        \/ i = 6 /\ ~sim_swap_tao_for_alpha(Store, hist[1].netuid, hist[1].amount).some
        \/ i = 7 /\ sim_swap_tao_for_alpha(Store, hist[1].netuid, hist[1].amount).some
                 /\ ~sim_update_value_for_one(
                        Store, hist[1].hotkey, hist[1].netuid,
                        as_i64(sim_swap_tao_for_alpha(Store, hist[1].netuid, hist[1].amount).val))}

\* The error of each check.
AddStakeError(i) ==
    CASE i = 1 -> "SubnetNotExists"
      [] i = 2 -> "AmountTooLow"
      [] i = 3 -> "SlippageTooHigh"
      [] i = 4 -> "NotEnoughBalanceToStake"
      [] i = 5 -> "HotKeyAccountNotExists"
      [] i = 6 -> "InsufficientLiquidity"
      [] i = 7 -> "InsufficientLiquidity"

\* C30: validate_add_stake reports the first failing check in the order
\* SubnetNotExists, AmountTooLow, SlippageTooHigh (unless allow_partial),
\* NotEnoughBalanceToStake, HotKeyAccountNotExists, InsufficientLiquidity of
\* the swap simulation, InsufficientLiquidity of the precision probe; it
\* returns Ok when no check fails.
C30_AddStakeFirstFailure ==
    (hist # << >> /\ hist[1].op = "validate_add_stake") =>
        IF FailingAddStakeChecks = {} THEN hist[1].ret = "Ok"
        ELSE hist[1].ret = AddStakeError(CHOOSE i \in FailingAddStakeChecks :
                                            \A j \in FailingAddStakeChecks : i <= j)

\* C30 witness: the slippage, the balance and the hotkey checks fail at
\* once and SlippageTooHigh is reported.
C30_Witness ==
    /\ hist # << >>
    /\ hist[1].op = "validate_add_stake"
    /\ {3, 4, 5} \subseteq FailingAddStakeChecks
    /\ FailingAddStakeChecks \cap {1, 2} = {}
    /\ hist[1].ret = "SlippageTooHigh"

----------------------------------------------------------------------------
(* The destination side of validate_stake_transition *)

\* The tao equivalent the last validate_stake_transition computed:
\* sim_swap_alpha_for_tao(origin_netuid, alpha_amount).
TaoEquivalent == sim_swap_alpha_for_tao(prev, hist[1].netuid, hist[1].amount)

\* The last call was a validate_stake_transition that passed every check
\* before the destination simulation, and sim_swap_tao_for_alpha on the
\* destination subnet with the tao equivalent reports insufficient liquidity.
DestinationStarved ==
    /\ hist # << >>
    /\ hist[1].op = "validate_stake_transition"
    /\ hist[1].ret \notin {"SubnetNotExists", "SubtokenDisabled", "HotKeyAccountNotExists",
                           "NotEnoughStakeToWithdraw", "AmountTooLow", "SlippageTooHigh"}
    /\ TaoEquivalent.some
    /\ ~sim_swap_tao_for_alpha(prev, hist[1].destination_netuid, TaoEquivalent.val).some

\* C31 (as stated): validate_stake_transition returns InsufficientLiquidity
\* whenever the simulated swap into the destination subnet reports
\* insufficient liquidity, whatever the share pool of the destination hotkey
\* holds, an empty pool included.
C31_DestinationLiquidity ==
    DestinationStarved => hist[1].ret = "InsufficientLiquidity"

----------------------------------------------------------------------------
(* The tao accounting of stake_into_subnet and unstake_from_subnet *)

\* The last call was stake_into_subnet.
StakedInto == hist # << >> /\ hist[1].op = "stake_into_subnet"

\* C32 (as stated): stake_into_subnet accounts for all the tao it receives:
\* SubnetTAO(netuid) and TotalStake each grow by exactly tao (tao - actual_fee
\* through the swap, actual_fee credited directly), also when the swap is
\* rejected for insufficient liquidity.
C32_StakeAccountsForAllTao ==
    StakedInto =>
        /\ SubnetTAO[hist[1].netuid] = NAdd(prev.SubnetTAO[hist[1].netuid], hist[1].amount)
        /\ TotalStake = NAdd(prev.TotalStake, hist[1].amount)

\* The last call was unstake_from_subnet; its StakeRemoved event is the last
\* event deposited.
UnstakedFrom == hist # << >> /\ hist[1].op = "unstake_from_subnet"
StakeRemoved == events[Len(events)]

\* The tao the swap of the alpha removed paid out: 0 when it was rejected.
SwapOutput ==
    IF sim_swap_alpha_for_tao(prev, hist[1].netuid, StakeRemoved[5]).some
    THEN sim_swap_alpha_for_tao(prev, hist[1].netuid, StakeRemoved[5]).val
    ELSE Z

\* C33 (as stated): unstake_from_subnet returns tao_unstaked = max(0, tao - fee)
\* for the swap output tao, charges actual_fee = min(tao, fee), and both
\* SubnetTAO(netuid) and TotalStake end lower by exactly tao_unstaked.
C33_UnstakeNetDecrease ==
    UnstakedFrom =>
        /\ hist[1].ret = NSub(SwapOutput, hist[1].fee)
        /\ StakeRemoved[7] = NMin(SwapOutput, hist[1].fee)
        /\ prev.SubnetTAO[hist[1].netuid] = NAdd(SubnetTAO[hist[1].netuid], hist[1].ret)
        /\ prev.TotalStake = NAdd(TotalStake, hist[1].ret)

\* The sum of SubnetTAO over all subnets.
SumSubnetTAO == NAdd(SubnetTAO[0], NAdd(SubnetTAO[1], SubnetTAO[2]))

\* C34 (as stated): TotalStake equals the sum of SubnetTAO over all subnets
\* after any sequence of swap_tao_for_alpha, swap_alpha_for_tao,
\* stake_into_subnet and unstake_from_subnet calls from a state where it does.
C34_TotalStakeIsSumOfSubnetTAO == TotalStake = SumSubnetTAO

----------------------------------------------------------------------------
(* Alpha issuance under the swaps *)

\* C35 (as stated): get_alpha_issuance(netuid) is unchanged by every
\* swap_tao_for_alpha and every swap_alpha_for_tao, successful or rejected,
\* for every amount, also a swap_alpha_for_tao of more alpha than
\* SubnetAlphaOut holds.
C35_IssuanceConserved ==
    (After("swap_tao_for_alpha") \/ After("swap_alpha_for_tao")) =>
        get_alpha_issuance(Store, hist[1].netuid) = get_alpha_issuance(prev, hist[1].netuid)

\* The alpha counters of the subnet of the last call are far enough from
\* u64::MAX for the alpha it moved: SubnetAlphaIn + SubnetAlphaOut + alpha is
\* at most u64::MAX.
AlphaBelowMax ==
    NLe(NAdd(NAdd(prev.SubnetAlphaIn[hist[1].netuid], prev.SubnetAlphaOut[hist[1].netuid]),
             NMax(hist[1].amount, hist[1].ret)),
        U64_MAX)

\* C35, as amended: a swap moves the alpha between SubnetAlphaIn and
\* SubnetAlphaOut, and the counter it is taken from stops at 0: after
\* swap_tao_for_alpha that returned alpha the issuance is higher by
\* max(0, alpha - SubnetAlphaIn), after an accepted swap_alpha_for_tao of alpha
\* by max(0, alpha - SubnetAlphaOut), and a rejected swap leaves it as it was.
\* So it is unchanged by every swap_tao_for_alpha on a Dynamic subnet and by
\* every swap_alpha_for_tao of at most SubnetAlphaOut. All of this as long as
\* no counter reaches u64::MAX.
C35_IssuanceUpToSaturation ==
    /\ (After("swap_tao_for_alpha") /\ AlphaBelowMax) =>
        /\ get_alpha_issuance(Store, hist[1].netuid) =
               NAdd(get_alpha_issuance(prev, hist[1].netuid),
                    NSub(hist[1].ret, prev.SubnetAlphaIn[hist[1].netuid]))
        /\ prev.SubnetMechanism[hist[1].netuid] = 1 =>
               get_alpha_issuance(Store, hist[1].netuid) = get_alpha_issuance(prev, hist[1].netuid)
    /\ (After("swap_alpha_for_tao") /\ AlphaBelowMax) =>
        /\ get_alpha_issuance(Store, hist[1].netuid) =
               NAdd(get_alpha_issuance(prev, hist[1].netuid),
                    IF hist[1].ok
                    THEN NSub(hist[1].amount, prev.SubnetAlphaOut[hist[1].netuid])
                    ELSE Z)
        /\ NLe(hist[1].amount, prev.SubnetAlphaOut[hist[1].netuid]) =>
               get_alpha_issuance(Store, hist[1].netuid) = get_alpha_issuance(prev, hist[1].netuid)

\* C35 witness: an accepted swap_alpha_for_tao on a Dynamic subnet of alpha
\* that SubnetAlphaOut covers: the alpha moved and the issuance is as before.
C35_Witness ==
    /\ After("swap_alpha_for_tao")
    /\ hist[1].ok
    /\ hist[1].amount # Z
    /\ prev.SubnetMechanism[hist[1].netuid] = 1
    /\ NLe(hist[1].amount, prev.SubnetAlphaOut[hist[1].netuid])
    /\ SubnetAlphaIn[hist[1].netuid] # prev.SubnetAlphaIn[hist[1].netuid]
    /\ get_alpha_issuance(Store, hist[1].netuid) = get_alpha_issuance(prev, hist[1].netuid)

\* C37 (as stated): swap_alpha_for_tao never pays out more tao than the
\* subnet holds: on every subnet, for every alpha, the tao returned is at most
\* SubnetTAO(netuid) before the call, so that SubnetTAO never stops at 0 while
\* TotalStake is reduced by more.
C37_PayoutWithinReserve ==
    After("swap_alpha_for_tao") =>
        /\ NLe(hist[1].ret, prev.SubnetTAO[hist[1].netuid])
        /\ NSub(prev.SubnetTAO[hist[1].netuid], SubnetTAO[hist[1].netuid]) =
               NSub(prev.TotalStake, TotalStake)

----------------------------------------------------------------------------
(* The two execution orders of one drained job list *)

\* A sequence back to front.
Reversed(seq) == [i \in 1..Len(seq) |-> seq[Len(seq) + 1 - i]]

\* Within each kind, the coldkeys of the jobs executed are pairwise distinct.
ColdkeysDistinctPerKind ==
    \A i, j \in DOMAIN Executed :
        (i # j /\ Executed[i].kind = Executed[j].kind)
            => Executed[i].coldkey # Executed[j].coldkey

\* The sequences the last do_on_finalize may have executed with the first
\* bit of the parent hash the other way.
ExecutedOtherWay ==
    {o.ret : o \in do_on_finalize_outcomes(prev, current_block, (hist[1].first_byte + 128) % 256,
                                           [id \in 1..MaxJobs |-> TRUE], hist[1].order)}

\* C36: for one drained job list in which, within each kind, all coldkeys are
\* pairwise distinct, the order of execution with altered set is exactly the
\* reverse of the order with altered clear.
C36_AlteredReversesOrder ==
    (Finalized /\ ColdkeysDistinctPerKind) => ExecutedOtherWay = {Reversed(Executed)}

\* C36 witness: two jobs of one kind, of coldkeys 1 and 2, were executed and
\* the other order is the reverse, which differs.
C36_Witness ==
    /\ Finalized
    /\ Len(Executed) = 2
    /\ Executed[1].kind = Executed[2].kind
    /\ Executed[1].coldkey # Executed[2].coldkey
    /\ ExecutedOtherWay = {<< Executed[2], Executed[1] >>}

----------------------------------------------------------------------------
(* Increases of stake over the whole range of u64 *)

\* The last call was one of the two increases.
StakeIncreased ==
    hist[1].op \in {"increase_stake", "increase_stake_for_hotkey"}

\* C38 (as stated): increase_stake_for_hotkey_on_subnet and
\* increase_stake_for_hotkey_and_coldkey_on_subnet add alpha: for every amount
\* of u64, those above i64::MAX included, the hotkey's total alpha on the
\* subnet is not lower after the call than before it.
C38_IncreaseNeverLowers ==
    StakeIncreased =>
        NLe(get_stake_for_hotkey_on_subnet(prev, 1, 1),
            get_stake_for_hotkey_on_subnet(Store, 1, 1))

\* The last call asked for the fee of adding stake (no origin), of a move
\* within one subnet, or of a removal or move from the root or from a Stable
\* subnet.
FlatFeeCase ==
    \/ ~hist[1].origin.some
    \/ /\ hist[1].destination.some
       /\ hist[1].destination.val[2] = hist[1].origin.val[2]
    \/ hist[1].origin.val[2] = RootNetuid
    \/ SubnetMechanism[hist[1].origin.val[2]] = 0

\* C39: calculate_staking_fee never returns less than DefaultStakingFee,
\* whatever the origin, the destination and the alpha estimate, and it
\* returns exactly DefaultStakingFee when there is no origin, when origin and
\* destination are on the same subnet, and when the origin subnet is the
\* root or Stable.
C39_FeeAtLeastDefault ==
    (hist # << >> /\ hist[1].op = "calculate_staking_fee") =>
        /\ NLe(DefaultStakingFee, hist[1].ret)
        /\ FlatFeeCase => hist[1].ret = DefaultStakingFee

\* C39 witness: a move of 10^12 alpha within Dynamic subnet 1, from which a
\* removal would cost more than the flat fee of 50_000, costs the flat fee.
C39_Witness ==
    /\ hist # << >>
    /\ hist[1].op = "calculate_staking_fee"
    /\ hist[1].origin = Some(<< 1, 1 >>)
    /\ hist[1].destination = Some(<< 1, 1 >>)
    /\ SubnetMechanism[1] = 1
    /\ hist[1].amount = ufix_from_int(Dec(<< 1, 0, 0, 0 >>), 32)
    /\ DefaultStakingFee = N(50000)
    /\ NLt(DefaultStakingFee, calculate_staking_fee(Store, Some(<< 1, 1 >>), None, hist[1].amount))
    /\ hist[1].ret = DefaultStakingFee
====
